---- MODULE Spec2Model ----
(***************************************************************************)
(* Model of r0oto0r/transcription-proxy.                                   *)
(*                                                                         *)
(*  - the delivery fan-out, internal/streaming/streaming.go: Streamer with *)
(*    its non-reentrant sync.Mutex, the two target maps, Initialize,       *)
(*    Stream (one goroutine per target), Cleanup;                          *)
(*  - the session controller, internal/proxy/proxy.go: Start, Stop and     *)
(*    processFFmpegOutput with its workers, pipes and queues.              *)
(*                                                                         *)
(* StreamerSpec drives the Streamer from client goroutines that call its   *)
(* exported methods; Spec is the pipeline, whose delivery worker is the    *)
(* only caller of Streamer.Stream.                                         *)
(***************************************************************************)
EXTENDS Integers, Sequences, FiniteSets, TLC

\* ------------------------------------------------------------------ bounds

\* calls each client goroutine makes on the Streamer
MaxCalls == 2

\* chunk payloads a client may pass to Stream
MaxData == 2

\* blocks of audio and of video the demuxer emits in a session
MaxAudioBlocks == 4
MaxVideoBlocks == 1

\* blocks of audio of a long stream, and the bytes of one: enough for more
\* chunks than the queue of processed chunks holds
LongAudioBlocks == 6
LongAudioBlock == 320000

\* bytes of one audio block and of one video block
AudioBlock == 160000
VideoBlock == 1200

\* blocks of audio that do not divide the chunk, and the bytes of one; blocks
\* of video of a session that is followed a statement at a time
RaggedAudioBlocks == 4
RaggedAudioBlock == 200000
ManyVideoBlocks == 3

\* ------------------------------------------------------------- Streamer

Clients == {"c1", "c2"}
Deliver == "deliver"
Callers == Clients \cup {Deliver}

AllTargets == {"t1", "t2"}

\* StreamTarget.Type of the two targets (Scenario A: twitch, youtube)
TargetType(t) == IF t = "t1" THEN "twitch" ELSE "youtube"

\* target lists a Streamer is constructed with (New does not reject an empty one)
TargetLists == {<< >>, <<"t1">>, <<"t1", "t2">>}

Data == [id : 1..MaxData, kind : {"orig"}]

Free == "free"

\* an error value: what the message starts with and, per target it lists,
\* <<target.Type, text>>
NilErr == [kind |-> "nil", msgs |-> {}]

\* the names (target types) an error lists
ErrNames(e) == {m[1] : m \in e.msgs}

\* a chunk payload: which chunk, and whether it is the original video or
\* the video with subtitles embedded
NoData == [id |-> 0, kind |-> "none"]

NoChan == [t \in {} |-> 0]

Range(s) == {s[i] : i \in DOMAIN s}

VARIABLES
  targets,              \* Streamer.targets
  persistentCmds,       \* Streamer.persistentCmds: target -> process id
  persistentStdinPipes, \* Streamer.persistentStdinPipes: target -> pipe id
  mu,                   \* Streamer.mu: Free or the goroutine that locked it
  initialized,          \* Streamer.initialized
  liveCmds,             \* ffmpeg processes started and not yet waited for
  openPipes,            \* stdin pipes opened and not yet closed
  nextPid,              \* id of the next process exec.Command creates
  received,             \* per target: <<chunk, call>> its channel has accepted
  frames,               \* per caller: the stack of Streamer methods it is in
  pc,                   \* per caller: position in the innermost method
  arg,                  \* per caller: data of its Stream call
  err,                  \* per caller: value the innermost method returns
  ret,                  \* per caller: result of its last finished call
  initErrors,           \* per caller: Initialize's local initErrors (targets)
  task,                 \* per caller, target: position of Stream's goroutine
  errCh,                \* per caller: Stream's errCh
  attempts,             \* per caller, target: pipe.Write calls of this Stream
  writeFailed,          \* per caller: <<target, process>> whose pipe.Write failed
  calls,                \* per caller: calls made so far
  order                 \* the calls made and returned so far, in order

streamerVars == <<targets, persistentCmds, persistentStdinPipes, mu, initialized,
                  liveCmds, openPipes, nextPid, received, frames, pc, arg, err,
                  ret, initErrors, task, errCh, attempts, writeFailed, calls, order>>

VARIABLES
  started,              \* Start: "no", "running" (p.ffmpegCmd set) or "failed"
  ffmpeg,               \* the demux process: "none", "running", "exited"
  emitA,                \* audio blocks the demuxer has written to its stdout
  emitV,                \* video blocks the demuxer has written to its stderr
  copyStdout,           \* os/exec's goroutine copying stdout to audioPipeWriter
  stdoutLeft,           \* bytes of the block that goroutine is still writing
  copyStderr,           \* Start's goroutine copying stderrPipe to videoPipeWriter
  videoWClosed,         \* videoPipeWriter is closed
  audioRClosed,         \* audioPipeReader is closed
  videoRClosed,         \* videoPipeReader is closed
  stderrClosed,         \* cmd.Wait has closed stderrPipe
  stopChan,             \* p.stopChan is closed
  stopPc,               \* the goroutine calling Stop
  mainPc,               \* the goroutine running processFFmpegOutput
  pcVideo,              \* the video reader
  pcAudio,              \* the audio reader
  pcAccum,              \* the goroutine pairing audio chunks with video
  pcDeliver,            \* the goroutine streaming processed chunks
  totalAudioBytesRead,  \* the audio cursor
  videoBuffer,          \* videoBuffer: the video blocks it holds
  chunkTasks,           \* the per-chunk goroutines, in the order started
  processedChunks,      \* the processedChunks channel
  dTries,               \* i of the delivery worker's retry loop
  streamed              \* the payloads the delivery worker has taken to stream

envVars == <<started, ffmpeg, emitA, emitV, copyStdout, stdoutLeft, copyStderr,
             videoWClosed, audioRClosed, videoRClosed, stderrClosed>>

ctlVars == <<stopChan, stopPc, mainPc>>

workerVars == <<pcVideo, pcAudio, pcAccum, pcDeliver, totalAudioBytesRead,
                videoBuffer, chunkTasks, processedChunks, dTries, streamed>>

VARIABLES
  targetURLs,           \* the configured list of target URLs, as text
  parsedTargets         \* what parseTargetURLs returns for it

parseVars == <<targetURLs, parsedTargets>>

VARIABLES
  enableTranslation,    \* Config.EnableTranslation
  format,               \* SubtitleEmbedder.format
  sourceLang,           \* streamConn.sourceLang
  targetLang,           \* streamConn.targetLang
  loadedPairs,          \* Translator.loadedPairs: pair key -> available
  langPairLock,         \* Translator.langPairLock: Free or its holder
  listings,             \* per pair key: runs of "argospm list" so far
  answers,              \* per pair key: what checkLanguagePair has returned
  tr,                   \* per goroutine: its TranslateSegments call
  trCalls,              \* per goroutine: TranslateSegments calls made
  chunk                 \* one chunk's goroutine of processFFmpegOutput

stageVars == <<enableTranslation, format, sourceLang, targetLang, loadedPairs,
               langPairLock, listings, answers, tr, trCalls, chunk>>

VARIABLES
  transcript,           \* the text parseTranscript is given
  transcriptSegments,   \* the segments it returns
  subtitleSegments,     \* the segments generateSubtitleData is given
  subtitleData,         \* the subtitle text it returns
  subtitleRead          \* the cues a reader of SRT finds in that text

textVars == <<transcript, transcriptSegments, subtitleSegments, subtitleData,
              subtitleRead>>

VARIABLES
  audioCh,              \* processStream's audioCh
  videoCh,              \* its videoCh
  resultCh,             \* its resultCh
  procErrCh,            \* its errCh
  pcSplit,              \* the goroutine running splitAudioVideo
  pcProcess,            \* the goroutine running processAudio
  pcCloser,             \* the goroutine closing resultCh after wg.Wait()
  pcMain,               \* the goroutine running processStream
  streamErrors,         \* processStream's streamErrors
  fallback,             \* the original video processAudio has sent, if any
  passed,               \* the payloads processStream has passed to Stream
  processResult         \* what processStream has returned

httpVars == <<audioCh, videoCh, resultCh, procErrCh, pcSplit, pcProcess,
              pcCloser, pcMain, streamErrors, fallback, passed, processResult>>

pureVars == <<parseVars, stageVars, textVars, httpVars>>

proxyVars == <<envVars, ctlVars, workerVars, pureVars>>

vars == <<streamerVars, proxyVars>>

NotParsed == [st |-> "none"]

\* a channel: what it holds and whether it is closed
NotMade == [buf |-> << >>, closed |-> FALSE]

Top(c) == IF frames[c] = << >> THEN "none" ELSE frames[c][Len(frames[c])]

Push(c, f) == [frames EXCEPT ![c] = Append(@, f)]

\* streaming.New
StreamerNew ==
  /\ persistentCmds = NoChan
  /\ persistentStdinPipes = NoChan
  /\ mu = Free
  /\ initialized = FALSE
  /\ liveCmds = {}
  /\ openPipes = {}
  /\ nextPid = 1
  /\ received = [t \in AllTargets |-> << >>]
  /\ frames = [c \in Callers |-> << >>]
  /\ pc = [c \in Callers |-> "idle"]
  /\ arg = [c \in Callers |-> NoData]
  /\ err = [c \in Callers |-> NilErr]
  /\ ret = [c \in Callers |-> [st |-> "none", err |-> NilErr]]
  /\ initErrors = [c \in Callers |-> << >>]
  /\ task = [c \in Callers |-> [t \in AllTargets |-> "idle"]]
  /\ errCh = [c \in Callers |-> << >>]
  /\ attempts = [c \in Callers |-> [t \in AllTargets |-> 0]]
  /\ writeFailed = [c \in Callers |-> {}]
  /\ calls = [c \in Callers |-> 0]
  /\ order = << >>

\* proxy.New, and the locals of processFFmpegOutput before it runs
ProxyNew ==
  /\ started = "no"
  /\ ffmpeg = "none"
  /\ emitA = 0 /\ emitV = 0
  /\ copyStdout = "none" /\ stdoutLeft = 0
  /\ copyStderr = "none"
  /\ videoWClosed = FALSE /\ audioRClosed = FALSE /\ videoRClosed = FALSE
  /\ stderrClosed = FALSE
  /\ stopChan = FALSE
  /\ stopPc = "idle"
  /\ mainPc = "none"
  /\ pcVideo = "none" /\ pcAudio = "none" /\ pcAccum = "none" /\ pcDeliver = "none"
  /\ totalAudioBytesRead = 0
  /\ videoBuffer = << >>
  /\ chunkTasks = << >>
  /\ processedChunks = << >>
  /\ dTries = 0
  /\ streamed = << >>

\* no list of target URLs is being parsed
NoConfig ==
  /\ targetURLs = << >>
  /\ parsedTargets = NotParsed

\* no request is being processed
NoRequest ==
  /\ audioCh = NotMade /\ videoCh = NotMade
  /\ resultCh = NotMade /\ procErrCh = NotMade
  /\ pcSplit = "none" /\ pcProcess = "none" /\ pcCloser = "none"
  /\ pcMain = "none"
  /\ streamErrors = 0
  /\ fallback = NoData
  /\ passed = << >>
  /\ processResult = [st |-> "none"]

\* no text is being parsed or rendered
NoText ==
  /\ transcript = << >>
  /\ transcriptSegments = NotParsed
  /\ subtitleSegments = << >>
  /\ subtitleData = NotParsed
  /\ subtitleRead = NotParsed

\* proxy.New, lines 36-55, and streamConn, lines 166-175, for Scenario A; no
\* chunk is being followed in detail
NoStage ==
  /\ enableTranslation = TRUE
  /\ format = "srt"
  /\ sourceLang = "en"
  /\ targetLang = "es"
  /\ loadedPairs = NoChan
  /\ langPairLock = Free
  /\ listings = NoChan
  /\ answers = NoChan
  /\ tr = NoChan
  /\ trCalls = NoChan
  /\ chunk = [pc |-> "none"]

StreamerInit ==
  /\ targets \in TargetLists
  /\ StreamerNew
  /\ ProxyNew
  /\ NoRequest
  /\ NoConfig
  /\ NoStage
  /\ NoText

\* ---------------------------------------------------- channel resources

MapPut(m, k, v) == [x \in (DOMAIN m) \cup {k} |-> IF x = k THEN v ELSE m[x]]

MapDel(m, k) == [x \in (DOMAIN m) \ {k} |-> m[x]]

\* the Streamer's channel state as one value, for the helpers below
Chan == [cmds |-> persistentCmds, pipes |-> persistentStdinPipes,
         live |-> liveCmds, open |-> openPipes, pid |-> nextPid]

\* initializeTarget: ok = FALSE is cmd.StdinPipe or cmd.Start failing, which
\* leaves no process, no open pipe and no map entry
initializeTarget(st, target, ok) ==
  IF ok
  THEN [cmds  |-> MapPut(st.cmds, target, st.pid),
        pipes |-> MapPut(st.pipes, target, st.pid),
        live  |-> st.live \cup {st.pid},
        open  |-> st.open \cup {st.pid},
        pid   |-> st.pid + 1]
  ELSE st

\* cleanupTarget: close the pipe, interrupt and wait for the process
cleanupTarget(st, target) ==
  LET closed == IF target \in DOMAIN st.pipes
                THEN [st EXCEPT !.open = @ \ {st.pipes[target]},
                                !.pipes = MapDel(@, target)]
                ELSE st
  IN IF target \in DOMAIN closed.cmds
     THEN [closed EXCEPT !.live = @ \ {closed.cmds[target]},
                         !.cmds = MapDel(@, target)]
     ELSE closed

\* cleanupAll that forgets the channels without closing or stopping them
cleanupAll_leak(st) == [st EXCEPT !.pipes = NoChan, !.cmds = NoChan]

\* cleanupAll that closes and stops the channels and keeps their entries
cleanupAll_keepsEntries(st) ==
  [st EXCEPT !.open = @ \ Range(st.pipes), !.live = @ \ Range(st.cmds)]

\* the two loops of Cleanup over the maps
cleanupAll(st) ==
  [st EXCEPT !.open = @ \ Range(st.pipes), !.pipes = NoChan,
             !.live = @ \ Range(st.cmds), !.cmds = NoChan]

\* the loop of Initialize over s.targets; failing = the targets whose
\* initializeTarget returns an error
RECURSIVE InitLoop(_, _, _)
InitLoop(st, i, failing) ==
  IF i > Len(targets) THEN st
  ELSE InitLoop(initializeTarget(st, targets[i], targets[i] \notin failing),
                i + 1, failing)

SetChan(st) ==
  /\ persistentCmds' = st.cmds
  /\ persistentStdinPipes' = st.pipes
  /\ liveCmds' = st.live
  /\ openPipes' = st.open
  /\ nextPid' = st.pid

chanVars == <<persistentCmds, persistentStdinPipes, liveCmds, openPipes, nextPid>>

\* ------------------------------------------------------- client goroutines

\* the events of the history: caller c makes its next call, of method m, or
\* returns from its present one
CallEvent(c, m) == [ev |-> "call", c |-> c, n |-> calls[c] + 1, m |-> m]
RetEvent(c, m) == [ev |-> "ret", c |-> c, n |-> calls[c], m |-> m]

CallInitialize(c) ==
  /\ UNCHANGED proxyVars
  /\ frames[c] = << >> /\ calls[c] < MaxCalls
  /\ frames' = Push(c, "Initialize")
  /\ pc' = [pc EXCEPT ![c] = "lock"]
  /\ order' = Append(order, CallEvent(c, "Initialize"))
  /\ ret' = [ret EXCEPT ![c] = [st |-> "pending", err |-> NilErr]]
  /\ calls' = [calls EXCEPT ![c] = @ + 1]
  /\ UNCHANGED <<targets, chanVars, mu, initialized, received, arg, err,
                 initErrors, task, errCh, attempts, writeFailed>>

CallStream(c, data) ==
  /\ frames[c] = << >>
  /\ frames' = Push(c, "Stream")
  /\ pc' = [pc EXCEPT ![c] = "lock"]
  /\ order' = Append(order, CallEvent(c, "Stream"))
  /\ arg' = [arg EXCEPT ![c] = data]
  /\ ret' = [ret EXCEPT ![c] = [st |-> "pending", err |-> NilErr]]
  /\ calls' = [calls EXCEPT ![c] = @ + 1]
  /\ attempts' = [attempts EXCEPT ![c] = [t \in AllTargets |-> 0]]
  /\ writeFailed' = [writeFailed EXCEPT ![c] = {}]
  /\ UNCHANGED <<targets, chanVars, mu, initialized, received, err,
                 initErrors, task, errCh>>

CallCleanup(c) ==
  /\ UNCHANGED proxyVars
  /\ frames[c] = << >> /\ calls[c] < MaxCalls
  /\ frames' = Push(c, "Cleanup")
  /\ pc' = [pc EXCEPT ![c] = "lock"]
  /\ order' = Append(order, CallEvent(c, "Cleanup"))
  /\ ret' = [ret EXCEPT ![c] = [st |-> "pending", err |-> NilErr]]
  /\ calls' = [calls EXCEPT ![c] = @ + 1]
  /\ UNCHANGED <<targets, chanVars, mu, initialized, received, arg, err,
                 initErrors, task, errCh, attempts, writeFailed>>

\* ------------------------------------------------------ Streamer methods

\* the error values the methods build: the targets are listed by their type
\* (fmt.Sprintf("%s: %v", target.Type, err))
InitErr(failed) ==
  [kind |-> "initialization errors",
   msgs |-> {<<TargetType(t), "init">> : t \in failed}]

NoTargetsErr == [kind |-> "no streaming targets specified", msgs |-> {}]

WrapInit(e) == [kind |-> "failed to initialize streaming", msgs |-> e.msgs]

StreamErr(ch) ==
  [kind |-> "streaming errors",
   msgs |-> {<<TargetType(ch[i][1]), ch[i][2]>> : i \in DOMAIN ch}]

\* the call a caller is making: its name and how many it has made
CallTag(c) == <<c, calls[c]>>

\* StreamEnter with no wait for the mutex
StreamEnter_nolock(c) ==
  /\ UNCHANGED proxyVars
  /\ Top(c) = "Stream" /\ pc[c] = "lock"
  /\ mu' = c
  /\ IF ~initialized
     THEN /\ frames' = Push(c, "Initialize")
          /\ pc' = [pc EXCEPT ![c] = "lock"]
     ELSE /\ pc' = [pc EXCEPT ![c] = "spawn"]
          /\ UNCHANGED frames
  /\ UNCHANGED <<targets, chanVars, initialized, received, arg, err, ret,
                 initErrors, task, errCh, attempts, writeFailed, calls, order>>

\* Stream, lines 174-181: s.mu.Lock(), then the call of Initialize when the
\* Streamer is not initialized. sync.Mutex is not reentrant: Lock blocks
\* until mu is free, whoever holds it.
StreamEnter(c) ==
  /\ UNCHANGED proxyVars
  /\ Top(c) = "Stream" /\ pc[c] = "lock"
  /\ mu = Free
  /\ mu' = c
  /\ IF ~initialized
     THEN /\ frames' = Push(c, "Initialize")
          /\ pc' = [pc EXCEPT ![c] = "lock"]
     ELSE /\ pc' = [pc EXCEPT ![c] = "spawn"]
          /\ UNCHANGED frames
  /\ UNCHANGED <<targets, chanVars, initialized, received, arg, err, ret,
                 initErrors, task, errCh, attempts, writeFailed, calls, order>>

\* InitializeEnter that does not look at s.initialized
InitializeEnter_reopens(c) ==
  /\ UNCHANGED proxyVars
  /\ Top(c) = "Initialize" /\ pc[c] = "lock"
  /\ mu = Free
  /\ mu' = c
  /\ IF Len(targets) = 0
     THEN /\ pc' = [pc EXCEPT ![c] = "ret"]
          /\ err' = [err EXCEPT ![c] = NoTargetsErr]
     ELSE /\ pc' = [pc EXCEPT ![c] = "targets"]
          /\ UNCHANGED err
  /\ initErrors' = [initErrors EXCEPT ![c] = << >>]
  /\ UNCHANGED <<targets, chanVars, initialized, received, frames, arg, ret,
                 task, errCh, attempts, writeFailed, calls, order>>

\* Initialize, lines 97-106
InitializeEnter(c) ==
  /\ UNCHANGED proxyVars
  /\ Top(c) = "Initialize" /\ pc[c] = "lock"
  /\ mu = Free
  /\ mu' = c
  /\ IF initialized
     THEN /\ pc' = [pc EXCEPT ![c] = "ret"]
          /\ err' = [err EXCEPT ![c] = NilErr]
     ELSE IF Len(targets) = 0
     THEN /\ pc' = [pc EXCEPT ![c] = "ret"]
          /\ err' = [err EXCEPT ![c] = NoTargetsErr]
     ELSE /\ pc' = [pc EXCEPT ![c] = "targets"]
          /\ UNCHANGED err
  /\ initErrors' = [initErrors EXCEPT ![c] = << >>]
  /\ UNCHANGED <<targets, chanVars, initialized, received, frames, arg, ret,
                 task, errCh, attempts, writeFailed, calls, order>>

\* Initialize, lines 108-124: the loop over the targets, then either the call
\* of s.Cleanup() (with mu still held) or initialized = true
InitializeTargets(c) ==
  /\ UNCHANGED proxyVars
  /\ Top(c) = "Initialize" /\ pc[c] = "targets"
  /\ \E failing \in SUBSET Range(targets) :
       /\ SetChan(InitLoop(Chan, 1, failing))
       /\ initErrors' = [initErrors EXCEPT ![c] =
                           SelectSeq(targets, LAMBDA t : t \in failing)]
       /\ IF failing # {}
          THEN /\ frames' = Push(c, "Cleanup")
               /\ pc' = [pc EXCEPT ![c] = "lock"]
               /\ UNCHANGED <<initialized, err>>
          ELSE /\ initialized' = TRUE
               /\ pc' = [pc EXCEPT ![c] = "ret"]
               /\ err' = [err EXCEPT ![c] = NilErr]
               /\ UNCHANGED frames
  /\ UNCHANGED <<targets, mu, received, arg, ret, task, errCh, attempts,
                 writeFailed, calls, order>>

\* Cleanup, line 233
CleanupEnter(c) ==
  /\ UNCHANGED proxyVars
  /\ Top(c) = "Cleanup" /\ pc[c] = "lock"
  /\ mu = Free
  /\ mu' = c
  /\ pc' = [pc EXCEPT ![c] = "body"]
  /\ UNCHANGED <<targets, chanVars, initialized, received, frames, arg, err,
                 ret, initErrors, task, errCh, attempts, writeFailed, calls, order>>

\* Cleanup, lines 236-249
CleanupBody(c) ==
  /\ UNCHANGED proxyVars
  /\ Top(c) = "Cleanup" /\ pc[c] = "body"
  /\ SetChan(cleanupAll(Chan))
  /\ initialized' = FALSE
  /\ pc' = [pc EXCEPT ![c] = "ret"]
  /\ err' = [err EXCEPT ![c] = NilErr]
  /\ UNCHANGED <<targets, mu, received, frames, arg, ret, initErrors, task,
                 errCh, attempts, writeFailed, calls, order>>

\* A method returns: its deferred s.mu.Unlock() runs and the caller goes on.
\* Initialize after s.Cleanup() returns its error (line 119); Stream after
\* s.Initialize() returns the wrapped error (line 179) or goes on to line 183.
Return(c) ==
  /\ UNCHANGED proxyVars
  /\ frames[c] # << >> /\ pc[c] = "ret"
  /\ mu' = Free
  /\ LET callee == Top(c)
         rest == SubSeq(frames[c], 1, Len(frames[c]) - 1)
         caller == IF rest = << >> THEN "none" ELSE rest[Len(rest)]
     IN /\ frames' = [frames EXCEPT ![c] = rest]
        /\ order' = IF caller = "none" THEN Append(order, RetEvent(c, callee))
                     ELSE order
        /\ IF caller = "none"
           THEN /\ pc' = [pc EXCEPT ![c] = "idle"]
                /\ ret' = [ret EXCEPT ![c] = [st |-> "done", err |-> err[c]]]
                /\ UNCHANGED err
           ELSE IF caller = "Initialize"
           THEN /\ pc' = [pc EXCEPT ![c] = "ret"]
                /\ err' = [err EXCEPT ![c] = InitErr(Range(initErrors[c]))]
                /\ UNCHANGED ret
           ELSE /\ pc' = [pc EXCEPT ![c] =
                            IF err[c] # NilErr THEN "ret" ELSE "spawn"]
                /\ err' = [err EXCEPT ![c] =
                             IF err[c] # NilErr THEN WrapInit(err[c]) ELSE NilErr]
                /\ UNCHANGED ret
  /\ UNCHANGED <<targets, chanVars, initialized, received, arg, initErrors,
                 task, errCh, attempts, writeFailed, calls>>

\* Stream, lines 183-213: errCh is made with capacity len(s.targets) and one
\* goroutine is started per target
StreamSpawn(c) ==
  /\ UNCHANGED proxyVars
  /\ Top(c) = "Stream" /\ pc[c] = "spawn"
  /\ errCh' = [errCh EXCEPT ![c] = << >>]
  /\ task' = [task EXCEPT ![c] =
                [t \in AllTargets |-> IF t \in Range(targets) THEN "start" ELSE "idle"]]
  /\ pc' = [pc EXCEPT ![c] = "wait"]
  /\ UNCHANGED <<targets, chanVars, mu, initialized, received, frames, arg,
                 err, ret, initErrors, attempts, writeFailed, calls, order>>

\* a send on errCh blocks while the channel holds cap(errCh) values
ErrChHasRoom(c) == Len(errCh[c]) < Len(targets)

\* TaskWrite with a goroutine that gives up, without writing, once another
\* target has reported an error
TaskWrite_failfast(c, t, ok) ==
  IF errCh[c] # << >>
  THEN /\ task' = [task EXCEPT ![c][t] = "done"]
       /\ UNCHANGED <<received, attempts, writeFailed, errCh>>
  ELSE /\ attempts' = [attempts EXCEPT ![c][t] = @ + 1]
       /\ IF ok
          THEN /\ received' = [received EXCEPT ![t] = Append(@, <<arg[c], CallTag(c)>>)]
               /\ task' = [task EXCEPT ![c][t] = "done"]
               /\ UNCHANGED <<errCh, writeFailed>>
          ELSE /\ errCh' = [errCh EXCEPT ![c] = Append(@, <<t, "error writing">>)]
               /\ writeFailed' = [writeFailed EXCEPT ![c] =
                                      @ \cup {<<t, persistentStdinPipes[t]>>}]
               /\ task' = [task EXCEPT ![c][t] = "lock"]
               /\ UNCHANGED received

\* TaskWrite over a channel that hands a chunk on ahead of the ones it
\* already holds
TaskWrite_outOfOrder(c, t, ok) ==
  IF t \notin DOMAIN persistentStdinPipes
  THEN /\ ErrChHasRoom(c)
       /\ errCh' = [errCh EXCEPT ![c] = Append(@, <<t, "no stdin pipe">>)]
       /\ task' = [task EXCEPT ![c][t] = "done"]
       /\ UNCHANGED <<received, attempts, writeFailed>>
  ELSE /\ attempts' = [attempts EXCEPT ![c][t] = @ + 1]
       /\ IF ok
          THEN /\ received' = [received EXCEPT ![t] = <<<<arg[c], CallTag(c)>>>> \o @]
               /\ task' = [task EXCEPT ![c][t] = "done"]
               /\ UNCHANGED <<errCh, writeFailed>>
          ELSE /\ ErrChHasRoom(c)
               /\ errCh' = [errCh EXCEPT ![c] = Append(@, <<t, "error writing">>)]
               /\ writeFailed' = [writeFailed EXCEPT ![c] =
                                      @ \cup {<<t, persistentStdinPipes[t]>>}]
               /\ task' = [task EXCEPT ![c][t] = "lock"]
               /\ UNCHANGED received

\* the goroutine at lines 195-203: the pipe lookup, pipe.Write and the
\* first error; ok is the outcome of pipe.Write
TaskWrite(c, t, ok) ==
  IF t \notin DOMAIN persistentStdinPipes
  THEN /\ ErrChHasRoom(c)
       /\ errCh' = [errCh EXCEPT ![c] = Append(@, <<t, "no stdin pipe">>)]
       /\ task' = [task EXCEPT ![c][t] = "done"]
       /\ UNCHANGED <<received, attempts, writeFailed>>
  ELSE /\ attempts' = [attempts EXCEPT ![c][t] = @ + 1]
       /\ IF ok
          THEN /\ received' = [received EXCEPT ![t] = Append(@, <<arg[c], CallTag(c)>>)]
               /\ task' = [task EXCEPT ![c][t] = "done"]
               /\ UNCHANGED <<errCh, writeFailed>>
          ELSE /\ ErrChHasRoom(c)
               /\ errCh' = [errCh EXCEPT ![c] = Append(@, <<t, "error writing">>)]
               /\ writeFailed' = [writeFailed EXCEPT ![c] =
                                      @ \cup {<<t, persistentStdinPipes[t]>>}]
               /\ task' = [task EXCEPT ![c][t] = "lock"]
               /\ UNCHANGED received

\* the goroutine at lines 205-210: s.mu.Lock(), cleanupTarget,
\* initializeTarget (ok its outcome), the second error, s.mu.Unlock()
TaskReinit(c, t, ok) ==
  IF task[c][t] = "lock"
  THEN /\ mu = Free
       /\ mu' = t
       /\ task' = [task EXCEPT ![c][t] = "reinit"]
       /\ UNCHANGED <<chanVars, errCh>>
  ELSE /\ task[c][t] = "reinit"
       /\ ok \/ ErrChHasRoom(c)
       /\ SetChan(initializeTarget(cleanupTarget(Chan, t), t, ok))
       /\ errCh' = [errCh EXCEPT ![c] =
                      IF ok THEN @ ELSE Append(@, <<t, "failed to reinitialize">>)]
       /\ mu' = Free
       /\ task' = [task EXCEPT ![c][t] = "done"]

\* one step of the goroutine Stream starts for a target, lines 192-212
StreamTask(c, t) ==
  /\ UNCHANGED proxyVars
  /\ Top(c) = "Stream" /\ pc[c] = "wait"
  /\ task[c][t] \in {"start", "lock", "reinit"}
  /\ \E ok \in BOOLEAN :
       IF task[c][t] = "start"
       THEN /\ TaskWrite(c, t, ok)
            /\ UNCHANGED <<chanVars, mu>>
       ELSE /\ TaskReinit(c, t, ok)
            /\ UNCHANGED <<received, attempts, writeFailed>>
  /\ UNCHANGED <<targets, initialized, frames, pc, arg, err, ret, initErrors,
                 calls, order>>

\* Stream, lines 216-228: wg.Wait(), close(errCh), the errors collected
StreamCollect(c) ==
  /\ UNCHANGED proxyVars
  /\ Top(c) = "Stream" /\ pc[c] = "wait"
  /\ \A t \in Range(targets) : task[c][t] = "done"
  /\ err' = [err EXCEPT ![c] =
               IF Len(errCh[c]) > 0 THEN StreamErr(errCh[c]) ELSE NilErr]
  /\ errCh' = [errCh EXCEPT ![c] = << >>]
  /\ task' = [task EXCEPT ![c] = [t \in AllTargets |-> "idle"]]
  /\ pc' = [pc EXCEPT ![c] = "ret"]
  /\ UNCHANGED <<targets, chanVars, mu, initialized, received, frames, arg,
                 ret, initErrors, attempts, writeFailed, calls, order>>

\* every step a goroutine can take inside the Streamer's methods
StreamerStep(c) ==
  \/ StreamEnter(c)
  \/ InitializeEnter(c)
  \/ InitializeTargets(c)
  \/ CleanupEnter(c)
  \/ CleanupBody(c)
  \/ Return(c)
  \/ StreamSpawn(c)
  \/ \E t \in AllTargets : StreamTask(c, t)
  \/ StreamCollect(c)

\* a client goroutine calls Stream
ClientStream(c, data) ==
  /\ calls[c] < MaxCalls
  /\ CallStream(c, data)
  /\ UNCHANGED proxyVars

StreamerNext ==
  \E c \in Clients :
    \/ CallInitialize(c)
    \/ \E d \in Data : ClientStream(c, d)
    \/ CallCleanup(c)
    \/ StreamerStep(c)

StreamerSpec == StreamerInit /\ [][StreamerNext]_vars

\* ------------------------------------------------------------ the session

\* proxy.go lines 188-194
ChunkDurationSec == 10
AudioSampleRate == 16000
BytesPerSample == 2
Channels == 1
AudioChunkSize == ChunkDurationSec * AudioSampleRate * BytesPerSample * Channels

\* the "too small" threshold of line 307, maxRetries of lines 322 and 407,
\* the capacity of processedChunks of line 209
MinChunkBytes == 1000
MaxRetries_four == 2 + 2

MaxRetries == 3
QueueDepth == 3

\* p.Config.DefaultTargetURL as parseTargetURLs sees it: a list with no
\* valid URL, which it rejects, or the list of targets it returns
ConfigTargetLists == {<< >>, <<"t1", "t2">>}

\* streamConn.sourceLang and streamConn.targetLang (Scenario A)
SourceLang == "en"
TargetLang == "es"

\* a Read that takes all that is offered, whatever room the slice has
Min_offered(a, b) == b

Min(a, b) == IF a < b THEN a ELSE b

\* Start, lines 58-133: ok is the outcome of cmd.Start()
Start ==
  /\ UNCHANGED pureVars
  /\ started = "no"
  /\ \E ok \in BOOLEAN :
       IF ok
       THEN /\ started' = "running"
            /\ ffmpeg' = "running"
            /\ copyStdout' = "read"
            /\ copyStderr' = "read"
            /\ mainPc' = "parse"
            /\ UNCHANGED <<videoWClosed, audioRClosed, videoRClosed>>
       ELSE /\ started' = "failed"
            /\ videoWClosed' = TRUE /\ audioRClosed' = TRUE /\ videoRClosed' = TRUE
            /\ UNCHANGED <<ffmpeg, copyStdout, copyStderr, mainPc>>
  /\ UNCHANGED <<emitA, emitV, stdoutLeft, stderrClosed, stopChan, stopPc,
                 workerVars, streamerVars>>

\* the demux process ends: on the interrupt Stop sends, or by itself when
\* its source is gone
FFmpegExit ==
  /\ UNCHANGED pureVars
  /\ ffmpeg = "running"
  /\ ffmpeg' = "exited"
  /\ UNCHANGED <<started, emitA, emitV, copyStdout, stdoutLeft, copyStderr,
                 videoWClosed, audioRClosed, videoRClosed, stderrClosed,
                 ctlVars, workerVars, streamerVars>>

\* os/exec's copy of the process's stdout into cmd.Stdout = audioPipeWriter
\* (line 97): it reads a block the demuxer wrote, or end of file once the
\* process is gone, and it gives up when a write fails on the closed pipe
CopyStdoutUpTo(blocks, bytes) ==
  /\ UNCHANGED pureVars
  /\ \/ /\ copyStdout = "read" /\ ffmpeg = "running" /\ emitA < blocks
        /\ emitA' = emitA + 1
        /\ copyStdout' = "write"
        /\ stdoutLeft' = bytes
     \/ /\ copyStdout = "read" /\ ffmpeg = "exited"
        /\ copyStdout' = "done"
        /\ UNCHANGED <<emitA, stdoutLeft>>
     \/ /\ copyStdout = "write" /\ audioRClosed
        /\ copyStdout' = "done"
        /\ stdoutLeft' = 0
        /\ UNCHANGED emitA
  /\ UNCHANGED <<started, ffmpeg, emitV, copyStderr, videoWClosed, audioRClosed,
                 videoRClosed, stderrClosed, ctlVars, workerVars, streamerVars>>

CopyStdout == CopyStdoutUpTo(MaxAudioBlocks, AudioBlock)

\* Start's goroutine, lines 110-115: io.Copy(videoWriter, stderrPipe) and the
\* deferred videoPipeWriter.Close()
CopyStderrUpTo(blocks) ==
  /\ UNCHANGED pureVars
  /\ \/ /\ copyStderr = "read" /\ ffmpeg = "running" /\ emitV < blocks
        /\ ~stderrClosed
        /\ emitV' = emitV + 1
        /\ copyStderr' = "write"
        /\ UNCHANGED videoWClosed
     \/ /\ copyStderr = "read" /\ (ffmpeg = "exited" \/ stderrClosed)
        /\ copyStderr' = "done"
        /\ videoWClosed' = TRUE
        /\ UNCHANGED emitV
     \/ /\ copyStderr = "write" /\ videoRClosed
        /\ copyStderr' = "done"
        /\ videoWClosed' = TRUE
        /\ UNCHANGED emitV
  /\ UNCHANGED <<started, ffmpeg, emitA, copyStdout, stdoutLeft, audioRClosed,
                 videoRClosed, stderrClosed, ctlVars, workerVars, streamerVars>>

CopyStderr == CopyStderrUpTo(MaxVideoBlocks)

\* Stop, lines 137-146: with no process started it returns at once;
\* otherwise close(p.stopChan) and the interrupt
StopCall ==
  /\ UNCHANGED pureVars
  /\ stopPc = "idle" /\ started # "no"
  /\ IF started = "running"
     THEN /\ stopChan' = TRUE
          /\ stopPc' = "wait"
     ELSE /\ stopPc' = "done"
          /\ UNCHANGED stopChan
  /\ UNCHANGED <<envVars, mainPc, workerVars, streamerVars>>

\* Stop, lines 148-152: p.ffmpegCmd.Wait() returns once the process has
\* exited and the stdout copy is done; it then closes stderrPipe
StopWait ==
  /\ UNCHANGED pureVars
  /\ stopPc = "wait"
  /\ ffmpeg = "exited" /\ copyStdout = "done"
  /\ stderrClosed' = TRUE
  /\ stopPc' = "done"
  /\ UNCHANGED <<started, ffmpeg, emitA, emitV, copyStdout, stdoutLeft,
                 copyStderr, videoWClosed, audioRClosed, videoRClosed,
                 stopChan, mainPc, workerVars, streamerVars>>

\* processFFmpegOutput, lines 179-238 and on, with what parseTargetURLs
\* returned (no target stands for its error): streaming.New and the four
\* workers started; with no valid target it returns and its deferred Close
\* calls run
MainParseAs(parsed) ==
  /\ mainPc = "parse"
  /\ IF parsed = << >>
     THEN /\ mainPc' = "returned"
          /\ audioRClosed' = TRUE /\ videoRClosed' = TRUE
          /\ UNCHANGED <<targets, pcVideo, pcAudio, pcAccum, pcDeliver>>
     ELSE /\ targets' = parsed
          /\ mainPc' = "waitStop"
          /\ pcVideo' = "select" /\ pcAudio' = "select"
          /\ pcAccum' = "select" /\ pcDeliver' = "select"
          /\ UNCHANGED <<audioRClosed, videoRClosed>>
  /\ UNCHANGED <<started, ffmpeg, emitA, emitV, copyStdout, stdoutLeft,
                 copyStderr, videoWClosed, stderrClosed, stopChan, stopPc,
                 totalAudioBytesRead, videoBuffer, chunkTasks, processedChunks,
                 dTries, streamed, chanVars, mu, initialized, received, frames,
                 pc, arg, err, ret, initErrors, task, errCh, attempts,
                 writeFailed, calls, order>>

\* processFFmpegOutput, lines 156-238 and on, for a list of targets that
\* parseTargetURLs rejects or accepts
MainParse ==
  /\ UNCHANGED pureVars
  /\ \E parsed \in ConfigTargetLists : MainParseAs(parsed)

\* every goroutine counted by wg has called wg.Done()
WorkersDone ==
  /\ pcVideo = "exit" /\ pcAudio = "exit" /\ pcAccum = "exit" /\ pcDeliver = "exit"
  /\ \A i \in DOMAIN chunkTasks : chunkTasks[i].pc = "done"

\* processFFmpegOutput, lines 426-431: <-p.stopChan, then wg.Wait(), then
\* the deferred videoReader.Close() and audioReader.Close()
MainWait ==
  /\ UNCHANGED pureVars
  /\ \/ /\ mainPc = "waitStop" /\ stopChan
        /\ mainPc' = "wgWait"
        /\ UNCHANGED <<audioRClosed, videoRClosed>>
     \/ /\ mainPc = "wgWait" /\ WorkersDone
        /\ mainPc' = "returned"
        /\ audioRClosed' = TRUE /\ videoRClosed' = TRUE
  /\ UNCHANGED <<started, ffmpeg, emitA, emitV, copyStdout, stdoutLeft,
                 copyStderr, videoWClosed, stderrClosed, stopChan, stopPc,
                 workerVars, streamerVars>>

\* the video reader, lines 216-238: the select on stopChan with its default,
\* videoReader.Read (which takes the block the copier is writing, or fails
\* once the writer is closed) and videoBuffer.Write
VideoReader ==
  /\ UNCHANGED pureVars
  /\ \/ /\ pcVideo = "select"
        /\ pcVideo' = IF stopChan THEN "exit" ELSE "read"
        /\ UNCHANGED <<videoBuffer, copyStderr>>
     \/ /\ pcVideo = "read" /\ copyStderr = "write"
        /\ videoBuffer' = Append(videoBuffer, emitV)
        /\ copyStderr' = "read"
        /\ pcVideo' = "select"
     \/ /\ pcVideo = "read" /\ copyStderr # "write" /\ videoWClosed
        /\ pcVideo' = "exit"
        /\ UNCHANGED <<videoBuffer, copyStderr>>
  /\ UNCHANGED <<started, ffmpeg, emitA, emitV, copyStdout, stdoutLeft,
                 videoWClosed, audioRClosed, videoRClosed, stderrClosed,
                 ctlVars, pcAudio, pcAccum, pcDeliver, totalAudioBytesRead,
                 chunkTasks, processedChunks, dTries, streamed, streamerVars>>

\* the audio reader, lines 242-276, up to the send on audioChunkReady:
\* audioReader.Read(audioChunk[totalAudioBytesRead:]) takes what fits of the
\* block the copier is writing. audioPipeWriter is closed by nobody once
\* Start has succeeded, so this Read never ends with an error.
AudioReader ==
  /\ UNCHANGED pureVars
  /\ \/ /\ pcAudio = "select"
        /\ pcAudio' = IF stopChan THEN "exit" ELSE "read"
        /\ UNCHANGED <<totalAudioBytesRead, copyStdout, stdoutLeft>>
     \/ /\ pcAudio = "read" /\ copyStdout = "write"
        /\ LET n == Min(AudioChunkSize - totalAudioBytesRead, stdoutLeft)
           IN /\ totalAudioBytesRead' = totalAudioBytesRead + n
              /\ stdoutLeft' = stdoutLeft - n
              /\ copyStdout' = IF stdoutLeft - n = 0 THEN "read" ELSE "write"
              /\ pcAudio' = IF totalAudioBytesRead + n >= AudioChunkSize
                            THEN "signal" ELSE "select"
     \/ /\ pcAudio = "signal" /\ stopChan
        /\ pcAudio' = "exit"
        /\ UNCHANGED <<totalAudioBytesRead, copyStdout, stdoutLeft>>
  /\ UNCHANGED <<started, ffmpeg, emitA, emitV, copyStderr, videoWClosed,
                 audioRClosed, videoRClosed, stderrClosed, ctlVars, pcVideo,
                 pcAccum, pcDeliver, videoBuffer, chunkTasks, processedChunks,
                 dTries, streamed, streamerVars>>

\* audioChunkReady is unbuffered: the send of line 264 and the receive of
\* line 290 happen together; the sender then resets its cursor (line 271)
ChunkReady ==
  /\ UNCHANGED pureVars
  /\ pcAudio = "signal" /\ pcAccum = "select"
  /\ pcAccum' = "emit"
  /\ totalAudioBytesRead' = 0
  /\ pcAudio' = "select"
  /\ UNCHANGED <<envVars, ctlVars, pcVideo, pcDeliver, videoBuffer, chunkTasks,
                 processedChunks, dTries, streamed, streamerVars>>

\* the bytes of a video chunk
VideoLen(video) == Len(video) * VideoBlock

\* the bytes audioChunk holds now. The audio reader fills it window after
\* window from offset 0 (line 250), so it holds window win with its first
\* `over` bytes already replaced by bytes of window win + 1. The windows
\* filled so far are those signalled on audioChunkReady plus the one that
\* is full and not yet signalled.
audioChunk ==
  LET signalled == Len(chunkTasks) + (IF pcAccum = "emit" THEN 1 ELSE 0)
      full == totalAudioBytesRead >= AudioChunkSize
  IN [win  |-> signalled + (IF full THEN 1 ELSE 0),
      over |-> IF full THEN 0 ELSE totalAudioBytesRead]

\* the accumulator, lines 285-300 and 386: it leaves on stopChan, or it
\* snapshots and resets videoBuffer and starts the goroutine of the chunk
\* with a copy of audioChunk[:audioChunkSize], made when the go statement
\* evaluates its arguments
Accumulator ==
  /\ UNCHANGED pureVars
  /\ \/ /\ pcAccum = "select" /\ stopChan
        /\ pcAccum' = "exit"
        /\ UNCHANGED <<videoBuffer, chunkTasks>>
     \/ /\ pcAccum = "emit"
        /\ chunkTasks' = Append(chunkTasks,
                                [pc |-> "start", audioLen |-> AudioChunkSize,
                                 audio |-> audioChunk, video |-> videoBuffer, tries |-> 0,
                                 segments |-> "none", out |-> NoData,
                                 sent |-> FALSE])
        /\ videoBuffer' = << >>
        /\ pcAccum' = "select"
  /\ UNCHANGED <<envVars, ctlVars, pcVideo, pcAudio, pcDeliver,
                 totalAudioBytesRead, processedChunks, dTries, streamed,
                 streamerVars>>

\* the payloads a chunk's goroutine can queue: the video as received, or
\* the video with the subtitles embedded
Orig(i) == [id |-> i, kind |-> "orig"]
Subs(i) == [id |-> i, kind |-> "subs"]

\* EmbedSubtitles returns the video itself, with no external call, when
\* there is no segment (subtitles.go line 33; the format is FormatSRT)
EmbedsNothing(segments) == segments = "empty"

\* line 307: the audio or the video of the chunk is too small to process
TooSmall_audioOnly(ct) == ct.audioLen < MinChunkBytes

TooSmall(ct) == ct.audioLen < MinChunkBytes \/ VideoLen(ct.video) < MinChunkBytes

\* the goroutine of chunk i, lines 300-386. Its external calls
\* (TranscribeAudio, TranslateSegments, EmbedSubtitles) each return, ok being
\* the outcome; a send on processedChunks waits for room in the queue or for
\* stopChan.
ChunkTask(i) ==
  /\ UNCHANGED pureVars
  /\ LET ct == chunkTasks[i]
         set(f) == chunkTasks' = [chunkTasks EXCEPT ![i] = f]
     IN \/ /\ ct.pc = "start"
           /\ IF TooSmall(ct)
              THEN set([ct EXCEPT !.pc = "send", !.out = Orig(i)])
              ELSE set([ct EXCEPT !.pc = "transcribe"])
           /\ UNCHANGED processedChunks
        \/ /\ ct.pc = "transcribe"
           /\ \E ok \in BOOLEAN, segs \in {"empty", "source"} :
                IF ok
                THEN set([ct EXCEPT !.segments = segs, !.tries = 0,
                                    !.pc = IF TargetLang # "" /\ TargetLang # SourceLang
                                           THEN "translate" ELSE "embed"])
                ELSE /\ segs = "empty"
                     /\ IF ct.tries + 1 = MaxRetries
                        THEN set([ct EXCEPT !.tries = 0, !.pc = "send", !.out = Orig(i)])
                        ELSE set([ct EXCEPT !.tries = @ + 1])
           /\ UNCHANGED processedChunks
        \/ /\ ct.pc = "translate"
           /\ \E ok \in BOOLEAN :
                set([ct EXCEPT !.pc = "embed",
                               !.segments = IF ok /\ @ = "source" THEN "translated" ELSE @])
           /\ UNCHANGED processedChunks
        \/ /\ ct.pc = "embed"
           /\ \E ok \in BOOLEAN :
                IF EmbedsNothing(ct.segments)
                THEN /\ ok
                     /\ set([ct EXCEPT !.pc = "send", !.out = Orig(i)])
                ELSE IF ok
                THEN set([ct EXCEPT !.tries = 0, !.pc = "send", !.out = Subs(i)])
                ELSE IF ct.tries + 1 = MaxRetries
                THEN set([ct EXCEPT !.tries = 0, !.pc = "send", !.out = Orig(i)])
                ELSE set([ct EXCEPT !.tries = @ + 1])
           /\ UNCHANGED processedChunks
        \/ /\ ct.pc = "send" /\ Len(processedChunks) < QueueDepth
           /\ processedChunks' = Append(processedChunks, ct.out)
           /\ set([ct EXCEPT !.pc = "done", !.sent = TRUE])
        \/ /\ ct.pc = "send" /\ stopChan
           /\ set([ct EXCEPT !.pc = "done"])
           /\ UNCHANGED processedChunks
  /\ UNCHANGED <<envVars, ctlVars, pcVideo, pcAudio, pcAccum, pcDeliver,
                 totalAudioBytesRead, videoBuffer, dTries, streamed, streamerVars>>

\* the delivery worker, lines 396-403: it leaves on stopChan, or takes the
\* next chunk and calls streamer.Stream(chunk) for the first time
Deliverer ==
  /\ UNCHANGED pureVars
  /\ pcDeliver = "select"
  /\ \/ /\ stopChan
        /\ pcDeliver' = "exit"
        /\ UNCHANGED <<processedChunks, dTries, streamed, streamerVars>>
     \/ /\ processedChunks # << >>
        /\ processedChunks' = Tail(processedChunks)
        /\ streamed' = Append(streamed, Head(processedChunks))
        /\ dTries' = 0
        /\ pcDeliver' = "stream"
        /\ CallStream(Deliver, Head(processedChunks))
  /\ UNCHANGED <<envVars, ctlVars, pcVideo, pcAudio, pcAccum,
                 totalAudioBytesRead, videoBuffer, chunkTasks>>

\* the delivery worker, lines 405-421: the steps of streamer.Stream(chunk)
\* and, when it has returned, the retry loop: up to maxRetries calls, until
\* one returns nil
DeliverStream ==
  /\ UNCHANGED pureVars
  /\ pcDeliver = "stream"
  /\ IF frames[Deliver] # << >>
     THEN StreamerStep(Deliver)
     ELSE /\ IF ret[Deliver].err = NilErr \/ dTries + 1 = MaxRetries
             THEN /\ pcDeliver' = "select"
                  /\ UNCHANGED <<dTries, streamerVars>>
             ELSE /\ dTries' = dTries + 1
                  /\ CallStream(Deliver, arg[Deliver])
                  /\ UNCHANGED pcDeliver
          /\ UNCHANGED <<envVars, ctlVars, pcVideo, pcAudio, pcAccum,
                         totalAudioBytesRead, videoBuffer, chunkTasks,
                         processedChunks, streamed>>

Init ==
  /\ targets = << >>
  /\ StreamerNew
  /\ ProxyNew
  /\ NoRequest
  /\ NoConfig
  /\ NoStage
  /\ NoText

\* the steps of the session's own goroutines and of the demuxer
SessionNext ==
  \/ Start
  \/ FFmpegExit
  \/ CopyStdout
  \/ CopyStderr
  \/ MainParse
  \/ MainWait
  \/ VideoReader
  \/ AudioReader
  \/ ChunkReady
  \/ Accumulator
  \/ \E i \in DOMAIN chunkTasks : ChunkTask(i)
  \/ Deliverer
  \/ DeliverStream

Next ==
  \/ SessionNext
  \/ StopCall
  \/ StopWait

Spec == Init /\ [][Next]_vars

\* a session on a long stream of audio: the demuxer keeps running, no video
\* has arrived yet and Stop is not called
CopyStdoutLong == CopyStdoutUpTo(LongAudioBlocks, LongAudioBlock)

LongStreamNext ==
  \/ Start
  \/ CopyStdoutLong
  \/ MainParse
  \/ AudioReader
  \/ ChunkReady
  \/ Accumulator
  \/ \E i \in DOMAIN chunkTasks : ChunkTask(i)
  \/ Deliverer
  \/ DeliverStream

LongStreamSpec == Init /\ [][LongStreamNext]_vars

\* ------------------------------------- the accumulation, statement by statement

\* a session whose audio arrives in blocks that do not divide the chunk and
\* whose video arrives in several blocks
CopyStdoutRagged == CopyStdoutUpTo(RaggedAudioBlocks, RaggedAudioBlock)

CopyStderrMany == CopyStderrUpTo(ManyVideoBlocks)

\* the accumulator, lines 285-300 and 386, a statement at a time: it leaves
\* on stopChan; it copies videoBuffer into videoChunk (lines 292-293); it
\* resets videoBuffer (line 296) and starts the goroutine of the chunk with
\* videoChunk and a copy of audioChunk[:audioChunkSize]. The entry of
\* chunkTasks at "copied" holds videoChunk until the go statement.
AccumulatorSteps ==
  /\ UNCHANGED pureVars
  /\ \/ /\ pcAccum = "select" /\ stopChan
        /\ pcAccum' = "exit"
        /\ UNCHANGED <<videoBuffer, chunkTasks>>
     \/ /\ pcAccum = "emit"
        /\ chunkTasks' = Append(chunkTasks,
                                [pc |-> "copied", audioLen |-> 0,
                                 audio |-> audioChunk, video |-> videoBuffer, tries |-> 0,
                                 segments |-> "none", out |-> NoData,
                                 sent |-> FALSE])
        /\ pcAccum' = "reset"
        /\ UNCHANGED videoBuffer
     \/ /\ pcAccum = "reset"
        /\ videoBuffer' = << >>
        /\ chunkTasks' = [chunkTasks EXCEPT ![Len(chunkTasks)] =
                            [@ EXCEPT !.pc = "start", !.audioLen = AudioChunkSize]]
        /\ pcAccum' = "select"
  /\ UNCHANGED <<envVars, ctlVars, pcVideo, pcAudio, pcDeliver,
                 totalAudioBytesRead, processedChunks, dTries, streamed,
                 streamerVars>>

AccumNext ==
  \/ Start
  \/ CopyStdoutRagged
  \/ CopyStderrMany
  \/ MainParse
  \/ VideoReader
  \/ AudioReader
  \/ ChunkReady
  \/ AccumulatorSteps
  \/ StopCall

AccumSpec == Init /\ [][AccumNext]_vars

\* ------------------------------------------------- the list of targets

\* Text is a sequence of tokens: a separator character (",", "/", ":", "?",
\* "=", " ", and "%" for a percent sign that starts no valid escape) or a
\* word, a run of other characters taken as a whole.
Separators == {",", "/", ":", "?", "=", " ", "%"}

\* most URLs of a list of targets
MaxURLs == 2

\* strings.ToLower of a word
ToLower(w) ==
  CASE w = "Twitch" -> "twitch"
    [] w = "YouTube" -> "youtube"
    [] OTHER -> w

\* the position of the first token tok of s, or 0
RECURSIVE IndexOf(_, _, _)
IndexOf(s, tok, from) ==
  IF from > Len(s) THEN 0
  ELSE IF s[from] = tok THEN from
  ELSE IndexOf(s, tok, from + 1)

\* strings.Split and bytes.Split on a one-character separator: the pieces
\* between the separators, empty ones included
RECURSIVE Split(_, _)
Split(s, sep) ==
  LET i == IndexOf(s, sep, 1)
  IN IF i = 0 THEN <<s>>
     ELSE <<SubSeq(s, 1, i - 1)>> \o Split(SubSeq(s, i + 1, Len(s)), sep)

\* bytes.TrimSpace
RECURSIVE TrimSpace(_)
TrimSpace(s) ==
  IF s = << >> THEN s
  ELSE IF Head(s) = " " THEN TrimSpace(Tail(s))
  ELSE IF s[Len(s)] = " " THEN TrimSpace(SubSeq(s, 1, Len(s) - 1))
  ELSE s

\* strings.TrimPrefix(s, "/")
TrimPrefix(s) == IF s # << >> /\ Head(s) = "/" THEN Tail(s) ELSE s

\* url.Parse for scheme://host/path?query and for a bare path: the scheme,
\* the host, the path with its leading slash, and the raw query; an invalid
\* percent escape is an error
urlParse(u) ==
  LET q == IndexOf(u, "?", 1)
      noq == IF q = 0 THEN u ELSE SubSeq(u, 1, q - 1)
      query == IF q = 0 THEN << >> ELSE SubSeq(u, q + 1, Len(u))
      hasScheme == Len(noq) >= 4 /\ noq[2] = ":" /\ noq[3] = "/" /\ noq[4] = "/"
      rest == IF hasScheme THEN SubSeq(noq, 5, Len(noq)) ELSE noq
      slash == IndexOf(rest, "/", 1)
  IN IF IndexOf(u, "%", 1) # 0
     THEN [ok |-> FALSE]
     ELSE [ok     |-> TRUE,
           Scheme |-> IF hasScheme THEN noq[1] ELSE "",
           Host   |-> IF ~hasScheme THEN << >>
                      ELSE IF slash = 0 THEN rest ELSE SubSeq(rest, 1, slash - 1),
           Path   |-> IF ~hasScheme THEN rest
                      ELSE IF slash = 0 THEN << >> ELSE SubSeq(rest, slash, Len(rest)),
           Query  |-> query]

\* url.Values.Get("auth") of the raw query auth=token
QueryGet(query) ==
  IF Len(query) = 3 /\ query[1] = "auth" /\ query[2] = "=" THEN query[3] ELSE ""

\* a piece of a path as one string: a word, or "" when the piece is empty
PartText(part) == IF part = << >> THEN "" ELSE part[1]

\* getStreamType, lines 68-77
getStreamType(typeStr) ==
  CASE ToLower(typeStr) = "twitch" -> "twitch"
    [] ToLower(typeStr) = "youtube" -> "youtube"
    [] OTHER -> "custom"

\* ParseStreamURL, lines 30-66
ParseStreamURL(inputURL) ==
  LET parsedURL == urlParse(inputURL)
      pathParts == Split(TrimPrefix(parsedURL.Path), "/")
      streamType == getStreamType(PartText(pathParts[1]))
      streamKey == PartText(pathParts[2])
  IN IF ~parsedURL.ok THEN [ok |-> FALSE, err |-> "invalid URL"]
     ELSE IF Len(pathParts) < 2
     THEN [ok |-> FALSE, err |-> "URL path must include streaming type and stream key"]
     ELSE [ok |-> TRUE,
           target |->
             [URL |-> CASE streamType = "twitch" ->
                             <<"rtmp", ":", "/", "/", "live.twitch.tv", "/", "app", "/", streamKey>>
                        [] streamType = "youtube" ->
                             <<"rtmp", ":", "/", "/", "a.rtmp.youtube.com", "/", "live2", "/", streamKey>>
                        [] OTHER ->
                             <<parsedURL.Scheme, ":", "/", "/">> \o parsedURL.Host \o parsedURL.Path,
              Type |-> streamType,
              StreamKey |-> streamKey,
              AuthToken |-> QueryGet(parsedURL.Query)]]

\* the loop of parseTargetURLs, lines 448-460, over the pieces from piece i
\* on, with the targets found so far
RECURSIVE ParseLoop(_, _, _)
ParseLoop(urls, i, found) ==
  IF i > Len(urls) THEN [ok |-> TRUE, targets |-> found]
  ELSE LET urlStr == TrimSpace(urls[i])
           r == ParseStreamURL(urlStr)
       IN IF urlStr = << >> THEN ParseLoop(urls, i + 1, found)
          ELSE IF ~r.ok THEN [ok |-> FALSE, err |-> "invalid target URL"]
          ELSE ParseLoop(urls, i + 1, Append(found, r.target))

\* parseTargetURLs without the check of lines 462-464
parseTargetURLs_acceptsEmpty(text) ==
  LET r == ParseLoop(Split(text, ","), 1, << >>)
  IN IF ~r.ok THEN [st |-> "error", err |-> r.err]
     ELSE [st |-> "ok", targets |-> r.targets]

\* parseTargetURLs, lines 444-467
parseTargetURLs(text) ==
  LET r == ParseLoop(Split(text, ","), 1, << >>)
  IN IF ~r.ok THEN [st |-> "error", err |-> r.err]
     ELSE IF Len(r.targets) = 0
     THEN [st |-> "error", err |-> "no valid target URLs provided"]
     ELSE [st |-> "ok", targets |-> r.targets]

\* the URLs a configuration may list: with or without "live" before the
\* provider, a short path, an invalid escape, an auth token
URLTexts ==
  {<<"rtmp", ":", "/", "/", h, "/">> \o pre \o <<ty, "/", k>> \o q :
     h \in {"a", "b"}, pre \in {<< >>, <<"live", "/">>},
     ty \in {"twitch", "youtube", "Twitch", "relay"}, k \in {"KEY1", "KEY2"},
     q \in {<< >>, <<"?", "auth", "=", "tok">>}}
  \cup {<<"rtmp", ":", "/", "/", "a", "/", "twitch">>,
        <<"rtmp", ":", "/", "/", "a", "/", "%", "/", "KEY1">>,
        << >>, <<" ">>}

\* texts of up to n URLs, separated by commas, the next one after a space
\* or not
RECURSIVE URLLists(_)
URLLists(n) ==
  IF n = 1 THEN URLTexts
  ELSE URLLists(n - 1)
         \cup {l \o <<",">> \o sp \o u :
                 l \in URLLists(n - 1), sp \in {<< >>, <<" ">>}, u \in URLTexts}

\* the list of Scenario A: "rtmp://a/live/twitch/KEY1,rtmp://b/live/youtube/KEY2"
ScenarioATargets ==
  <<"rtmp", ":", "/", "/", "a", "/", "live", "/", "twitch", "/", "KEY1", ",",
    "rtmp", ":", "/", "/", "b", "/", "live", "/", "youtube", "/", "KEY2">>

ParseInit ==
  /\ targets = << >>
  /\ StreamerNew
  /\ ProxyNew
  /\ NoRequest
  /\ NoStage
  /\ NoText
  /\ targetURLs \in URLLists(MaxURLs)
  /\ parsedTargets = NotParsed

\* processFFmpegOutput, line 178: parseTargetURLs(p.Config.DefaultTargetURL)
ParseTargets ==
  /\ parsedTargets = NotParsed
  /\ parsedTargets' = parseTargetURLs(targetURLs)
  /\ UNCHANGED <<targetURLs, stageVars, textVars, httpVars, streamerVars, envVars,
                 ctlVars, workerVars>>

ParseNext == ParseTargets

ParseSpec == ParseInit /\ [][ParseNext]_vars

\* ---------------------------------------------- a list with no target

\* most tokens of a list of targets that holds commas and blanks only
MaxBlank == 2

\* the texts of commas and blanks, the empty text included
RECURSIVE BlankTexts(_)
BlankTexts(n) ==
  IF n = 0 THEN {<< >>}
  ELSE BlankTexts(n - 1)
         \cup {Append(b, x) : b \in BlankTexts(n - 1), x \in {",", " "}}

\* the names the Streamer's targets go by, in the order of the parsed list
TargetNames(n) == SubSeq(<<"t1", "t2">>, 1, n)

\* processFFmpegOutput, lines 178-185 and on, for the configured text
MainParseURLs ==
  /\ parsedTargets = NotParsed
  /\ parsedTargets' = parseTargetURLs(targetURLs)
  /\ UNCHANGED <<targetURLs, stageVars, textVars, httpVars>>
  /\ MainParseAs(IF parsedTargets'.st = "error" THEN << >>
                 ELSE TargetNames(Len(parsedTargets'.targets)))

\* Scenario D: the configured list holds no URL; beside the session, clients
\* call Initialize on a Streamer made with no target
NoTargetsInit ==
  /\ targets = << >>
  /\ StreamerNew
  /\ ProxyNew
  /\ NoRequest
  /\ NoStage
  /\ NoText
  /\ targetURLs \in BlankTexts(MaxBlank)
  /\ parsedTargets = NotParsed

NoTargetsNext ==
  \/ Start
  \/ FFmpegExit
  \/ CopyStdout
  \/ CopyStderr
  \/ StopCall
  \/ StopWait
  \/ MainParseURLs
  \/ \E c \in Clients : CallInitialize(c) \/ InitializeEnter(c) \/ Return(c)

NoTargetsSpec == NoTargetsInit /\ [][NoTargetsNext]_vars

\* ------------------------------------------------------- the Translator

\* the goroutines that call the Translator: chunk goroutines
Goroutines == {"g1", "g2"}

\* most TranslateSegments calls of a goroutine
MaxTrCalls == 2

\* language codes as configured
Langs == {"", "en", "es", "en-US"}

\* transcript segments; Start and End in milliseconds
Seg1 == [Start |-> 0, End |-> 1500, Text |-> "hello"]
Seg2 == [Start |-> 1500, End |-> 3000, Text |-> "world"]
SegLists == {<< >>, <<Seg1>>, <<Seg1, Seg2>>}

\* what argos-translate prints for a text, trimmed
Translations == {"hola", ""}

\* normalizeLanguageCode, lines 134-166: lower case, then the table, then the
\* part before a hyphen
normalizeLanguageCode(lang) ==
  CASE lang = "en-US" -> "en"
    [] OTHER -> lang

\* checkLanguagePair, line 103
PairKey(src, tgt) == <<src, tgt>>

PairKeys == {PairKey(normalizeLanguageCode(a), normalizeLanguageCode(b)) :
               a \in Langs, b \in Langs}

NoCall == [pc |-> "idle"]

\* what a call of the Translator leaves alone
cfgVars == <<enableTranslation, format, sourceLang, targetLang>>
restVars == <<streamerVars, envVars, ctlVars, workerVars, parseVars, textVars,
             httpVars>>

\* translator.New, lines 24-30, and no call in progress
TranslatorNew ==
  /\ loadedPairs = NoChan
  /\ langPairLock = Free
  /\ listings = [k \in PairKeys |-> 0]
  /\ answers = [k \in PairKeys |-> {}]
  /\ tr = [g \in Goroutines |-> NoCall]
  /\ trCalls = [g \in Goroutines |-> 0]

\* the call TranslateSegments(segments, src, tgt) as g makes it
TranslateCall(g, segments, src, tgt) ==
  [tr EXCEPT ![g] = [pc |-> "enter", segments |-> segments, src |-> src,
                     tgt |-> tgt, avail |-> FALSE, out |-> << >>,
                     err |-> NilErr]]

NotAvailable == [kind |-> "model not available"]

\* TranslateSegments, lines 34-45: with translation disabled or the two
\* languages equal it returns the segments it was given
TranslateEnter(g) ==
  /\ tr[g].pc = "enter"
  /\ IF ~enableTranslation \/ tr[g].src = tr[g].tgt
     THEN tr' = [tr EXCEPT ![g].pc = "ret", ![g].out = tr[g].segments]
     ELSE tr' = [tr EXCEPT ![g].pc = "lock",
                           ![g].src = normalizeLanguageCode(@),
                           ![g].tgt = normalizeLanguageCode(@)]
  /\ UNCHANGED <<loadedPairs, langPairLock, listings, answers>>
  /\ UNCHANGED <<cfgVars, trCalls, chunk, restVars>>

\* checkLanguagePair, lines 103-111: the lock, and the answer from
\* loadedPairs when the pair is there
CheckLookup(g) ==
  /\ tr[g].pc = "lock"
  /\ langPairLock = Free
  /\ LET k == PairKey(tr[g].src, tr[g].tgt)
     IN IF k \in DOMAIN loadedPairs
        THEN /\ tr' = [tr EXCEPT ![g].pc = "checked", ![g].avail = loadedPairs[k]]
             /\ answers' = [answers EXCEPT ![k] = @ \cup {loadedPairs[k]}]
             /\ UNCHANGED langPairLock
        ELSE /\ tr' = [tr EXCEPT ![g].pc = "list"]
             /\ langPairLock' = g
             /\ UNCHANGED answers
  /\ UNCHANGED <<loadedPairs, listings>>
  /\ UNCHANGED <<cfgVars, trCalls, chunk, restVars>>

\* checkLanguagePair, lines 113-131: "argospm list" runs with the lock held;
\* it fails, or its output names the package or does not
CheckList(g) ==
  /\ tr[g].pc = "list"
  /\ LET k == PairKey(tr[g].src, tr[g].tgt)
     IN \E outcome \in {"error", "listed", "missing"} :
          /\ listings' = [listings EXCEPT ![k] = @ + 1]
          /\ loadedPairs' = IF outcome = "error" THEN loadedPairs
                            ELSE MapPut(loadedPairs, k, outcome = "listed")
          /\ tr' = [tr EXCEPT ![g].pc = "checked", ![g].avail = (outcome = "listed")]
          /\ answers' = [answers EXCEPT ![k] = @ \cup {outcome = "listed"}]
  /\ langPairLock' = Free
  /\ UNCHANGED <<cfgVars, trCalls, chunk, restVars>>

\* the texts translateText gives for each segment, lines 54-67: a failed
\* call keeps the segment's text
TranslatedAs(segments, texts) ==
  [i \in DOMAIN segments |->
     IF texts[i] = "fail" THEN segments[i]
     ELSE [segments[i] EXCEPT !.Text = texts[i]]]

\* TranslateSegments, lines 48-69
TranslateLoop(g) ==
  /\ tr[g].pc = "checked"
  /\ IF ~tr[g].avail
     THEN tr' = [tr EXCEPT ![g].pc = "ret", ![g].out = tr[g].segments,
                           ![g].err = NotAvailable]
     ELSE \E texts \in [DOMAIN tr[g].segments -> Translations \cup {"fail"}] :
            tr' = [tr EXCEPT ![g].pc = "ret",
                             ![g].out = TranslatedAs(tr[g].segments, texts)]
  /\ UNCHANGED <<loadedPairs, langPairLock, listings, answers>>
  /\ UNCHANGED <<cfgVars, trCalls, chunk, restVars>>

\* the steps of a TranslateSegments call
TranslatorStep(g) ==
  \/ TranslateEnter(g)
  \/ CheckLookup(g)
  \/ CheckList(g)
  \/ TranslateLoop(g)

\* the language pairs of the calls: two that normalise to the same pair, and
\* its reverse
CallPairs == {<<"en", "es">>, <<"en-US", "es">>, <<"es", "en">>}

\* a goroutine calls TranslateSegments
CallTranslate(g) ==
  /\ tr[g].pc = "idle" /\ trCalls[g] < MaxTrCalls
  /\ \E pair \in CallPairs :
       tr' = TranslateCall(g, <<Seg1>>, pair[1], pair[2])
  /\ trCalls' = [trCalls EXCEPT ![g] = @ + 1]
  /\ UNCHANGED <<loadedPairs, langPairLock, listings, answers>>
  /\ UNCHANGED <<cfgVars, chunk, restVars>>

\* its call has returned
TranslateReturn(g) ==
  /\ tr[g].pc = "ret"
  /\ tr' = [tr EXCEPT ![g] = NoCall]
  /\ UNCHANGED <<loadedPairs, langPairLock, listings, answers>>
  /\ UNCHANGED <<cfgVars, trCalls, chunk, restVars>>

TranslatorInit ==
  /\ targets = << >>
  /\ StreamerNew
  /\ ProxyNew
  /\ NoRequest
  /\ NoConfig
  /\ enableTranslation \in BOOLEAN
  /\ format = "srt"
  /\ sourceLang = "en"
  /\ targetLang = "es"
  /\ TranslatorNew
  /\ chunk = [pc |-> "none"]
  /\ NoText

TranslatorNext ==
  \E g \in Goroutines :
    \/ CallTranslate(g)
    \/ TranslatorStep(g)
    \/ TranslateReturn(g)

TranslatorSpec == TranslatorInit /\ [][TranslatorNext]_vars

\* ------------------------------------------------- one chunk in detail

\* the subtitle formats of subtitles.go, lines 16-20
Formats == {"srt", "vtt", "none"}

\* line 347: the chunk's segments are to be translated
TranslateNeeded_always(src, tgt) == TRUE

TranslateNeeded(src, tgt) == tgt # "" /\ tgt # src

\* the payload with the subtitles of these segments embedded
Embedded(segments) == [kind |-> "subs", segments |-> segments]
Original == [kind |-> "orig"]

\* the chunk's goroutine is started, lines 299-300 and 386, with a whole
\* audio window and the video read so far
ChunkNew ==
  \E video \in {<< >>, <<"v1">>} :
    chunk = [pc |-> "start", audioLen |-> AudioChunkSize, video |-> video,
             tries |-> 0, segments |-> << >>, transcribed |-> << >>,
             transcribeErr |-> NilErr, translateErr |-> NilErr,
             embedArgs |-> << >>,
             nTranscribe |-> 0, nTranslate |-> 0, nEmbed |-> 0, nExec |-> 0,
             out |-> [kind |-> "none"], sent |-> FALSE]

\* lines 303-317
ChunkStart ==
  /\ chunk.pc = "start"
  /\ IF TooSmall(chunk)
     THEN chunk' = [chunk EXCEPT !.pc = "send", !.out = Original]
     ELSE chunk' = [chunk EXCEPT !.pc = "transcribe"]
  /\ UNCHANGED <<cfgVars, loadedPairs, langPairLock, listings, answers, tr,
                 trCalls, restVars>>

\* the error of a TranscribeAudio call that failed
TranscribeFailed == [kind |-> "transcription failed"]

\* lines 319-344: one pass of the loop around TranscribeAudio, and what
\* follows the loop when it ends
ChunkTranscribe ==
  /\ chunk.pc = "transcribe"
  /\ \E ok \in BOOLEAN, segments \in SegLists :
       IF ok
       THEN chunk' = [chunk EXCEPT !.nTranscribe = @ + 1, !.tries = 0,
                                   !.segments = segments,
                                   !.transcribed = segments,
                                   !.transcribeErr = NilErr,
                                   !.pc = IF TranslateNeeded(sourceLang, targetLang)
                                          THEN "translate" ELSE "embed"]
       ELSE /\ segments = << >>
            /\ IF chunk.tries + 1 = MaxRetries
               THEN chunk' = [chunk EXCEPT !.nTranscribe = @ + 1, !.tries = 0,
                                           !.transcribeErr = TranscribeFailed,
                                           !.pc = "send", !.out = Original]
               ELSE chunk' = [chunk EXCEPT !.nTranscribe = @ + 1, !.tries = @ + 1,
                                           !.transcribeErr = TranscribeFailed]
  /\ UNCHANGED <<cfgVars, loadedPairs, langPairLock, listings, answers, tr,
                 trCalls, restVars>>

\* line 348: the call of p.translator.TranslateSegments
ChunkTranslate ==
  /\ chunk.pc = "translate"
  /\ chunk' = [chunk EXCEPT !.pc = "translating", !.nTranslate = @ + 1]
  /\ tr' = TranslateCall("g1", chunk.segments, sourceLang, targetLang)
  /\ trCalls' = [trCalls EXCEPT !["g1"] = @ + 1]
  /\ UNCHANGED <<cfgVars, loadedPairs, langPairLock, listings, answers, restVars>>

\* lines 349-354: the call has returned
ChunkTranslated ==
  /\ chunk.pc = "translating" /\ tr["g1"].pc = "ret"
  /\ chunk' = [chunk EXCEPT !.pc = "embed",
                            !.translateErr = tr["g1"].err,
                            !.segments = IF tr["g1"].err = NilErr
                                         THEN tr["g1"].out ELSE @]
  /\ tr' = [tr EXCEPT !["g1"] = NoCall]
  /\ UNCHANGED <<cfgVars, loadedPairs, langPairLock, listings, answers,
                 trCalls, restVars>>

\* EmbedSubtitles, subtitles.go lines 32-43, for these segments: "same" is
\* the video returned as it is with nothing run; otherwise the subtitle data
\* is generated and handed to ffmpeg, which is not reached ("early": a
\* temporary file cannot be written, or the format is unknown), fails, or
\* gives the video with the subtitles
EmbedOutcomes_alwaysRuns(segments) == {"early", "failed", "embedded"}

EmbedOutcomes(segments) ==
  IF format = "none" \/ Len(segments) = 0 THEN {"same"}
  ELSE IF format \notin {"srt", "vtt"} THEN {"early"}
  ELSE {"early", "failed", "embedded"}

\* lines 356-377: one pass of the loop around EmbedSubtitles, and what
\* follows the loop when it ends
ChunkEmbed ==
  /\ chunk.pc = "embed"
  /\ \E outcome \in EmbedOutcomes(chunk.segments) :
       LET c1 == [chunk EXCEPT !.nEmbed = @ + 1,
                               !.embedArgs = chunk.segments,
                               !.nExec = IF outcome \in {"failed", "embedded"}
                                         THEN @ + 1 ELSE @]
       IN IF outcome = "same"
          THEN chunk' = [c1 EXCEPT !.tries = 0, !.pc = "send", !.out = Original]
          ELSE IF outcome = "embedded"
          THEN chunk' = [c1 EXCEPT !.tries = 0, !.pc = "send",
                                   !.out = Embedded(chunk.segments)]
          ELSE IF chunk.tries + 1 = MaxRetries
          THEN chunk' = [c1 EXCEPT !.tries = 0, !.pc = "send", !.out = Original]
          ELSE chunk' = [c1 EXCEPT !.tries = @ + 1]
  /\ UNCHANGED <<cfgVars, loadedPairs, langPairLock, listings, answers, tr,
                 trCalls, restVars>>

\* the sends on processedChunks, lines 310-316, 337-343, 370-376, 380-385
ChunkSend ==
  /\ chunk.pc = "send"
  /\ \/ /\ Len(processedChunks) < QueueDepth
        /\ processedChunks' = Append(processedChunks, chunk.out)
        /\ chunk' = [chunk EXCEPT !.pc = "done", !.sent = TRUE]
     \/ /\ stopChan
        /\ chunk' = [chunk EXCEPT !.pc = "done"]
        /\ UNCHANGED processedChunks
  /\ UNCHANGED <<cfgVars, loadedPairs, langPairLock, listings, answers, tr,
                 trCalls, streamerVars, envVars, ctlVars, parseVars, textVars,
                 httpVars, pcVideo,
                 pcAudio, pcAccum, pcDeliver, totalAudioBytesRead, videoBuffer,
                 chunkTasks, dTries, streamed>>

\* a session's configuration and one chunk of it
ChunkInit ==
  /\ targets = << >>
  /\ StreamerNew
  /\ ProxyNew
  /\ NoRequest
  /\ NoConfig
  /\ enableTranslation \in BOOLEAN
  /\ format \in Formats
  /\ sourceLang \in Langs \ {""}
  /\ targetLang \in Langs
  /\ TranslatorNew
  /\ ChunkNew
  /\ NoText

ChunkNext ==
  \/ ChunkStart
  \/ ChunkTranscribe
  \/ ChunkTranslate
  \/ TranslatorStep("g1")
  \/ ChunkTranslated
  \/ ChunkEmbed
  \/ ChunkSend

ChunkSpec == ChunkInit /\ [][ChunkNext]_vars

\* ---------------------------------------------------- the transcript

\* A transcript is a sequence of tokens: "\n", " ", "[", "]", ":", "-->" or
\* a word with none of these in it.

\* most lines of a transcript
MaxLines == 2

\* two digits as fmt.Sscanf("%f") reads them
NumVal(w) ==
  CASE w = "00" -> 0 [] w = "01" -> 1 [] w = "05" -> 5 [] w = "10" -> 10
    [] OTHER -> -1

\* fmt.Sscanf(part, "%f", &x) with x = 0.0 before: the number the part
\* starts with, or 0 when it starts with none
Sscanf(part) ==
  IF part # << >> /\ NumVal(part[1]) >= 0 THEN NumVal(part[1]) ELSE 0

\* parseTimestamp, lines 246-261; the caller drops the error
parseTimestamp(timestamp) ==
  LET parts == Split(timestamp, ":")
  IN IF Len(parts) # 3 THEN 0
     ELSE Sscanf(parts[1]) * 3600 + Sscanf(parts[2]) * 60 + Sscanf(parts[3])

\* strings.SplitN(line, " ", 3)
SplitN3(line) ==
  LET i == IndexOf(line, " ", 1)
      j == IF i = 0 THEN 0 ELSE IndexOf(line, " ", i + 1)
  IN IF i = 0 THEN <<line>>
     ELSE IF j = 0 THEN <<SubSeq(line, 1, i - 1), SubSeq(line, i + 1, Len(line))>>
     ELSE <<SubSeq(line, 1, i - 1), SubSeq(line, i + 1, j - 1),
            SubSeq(line, j + 1, Len(line))>>

\* strings.Trim(s, "[]")
RECURSIVE TrimBrackets(_)
TrimBrackets(s) ==
  IF s = << >> THEN s
  ELSE IF Head(s) \in {"[", "]"} THEN TrimBrackets(Tail(s))
  ELSE IF s[Len(s)] \in {"[", "]"} THEN TrimBrackets(SubSeq(s, 1, Len(s) - 1))
  ELSE s

\* the loop of parseTranscript, lines 213-241, from line i on (the first
\* line is line 1 here and line 0 in the code)
RECURSIVE ParseLines(_, _)
ParseLines(lines, i) ==
  IF i > Len(lines) THEN << >>
  ELSE LET line == lines[i]
           parts == SplitN3(line)
           timeRange == TrimBrackets(parts[1])
           timeParts == Split(timeRange, "-->")
           segment == [ID        |-> i - 1,
                       Start     |-> parseTimestamp(TrimSpace(timeParts[1])),
                       End       |-> parseTimestamp(TrimSpace(timeParts[2])),
                       Text      |-> TrimSpace(parts[3]),
                       Timestamp |-> timeRange]
       IN IF TrimSpace(line) = << >> \/ Len(parts) < 3 \/ Len(timeParts) # 2
          THEN ParseLines(lines, i + 1)
          ELSE <<segment>> \o ParseLines(lines, i + 1)

\* parseTranscript, lines 209-244
parseTranscript(text) == ParseLines(Split(text, "\n"), 1)

\* times of day, and the words that write their parts
Stamps == {[h |-> 0, m |-> 0, s |-> 1], [h |-> 0, m |-> 0, s |-> 5],
           [h |-> 0, m |-> 1, s |-> 10]}

NumWord(n) == CASE n = 0 -> "00" [] n = 1 -> "01" [] n = 5 -> "05" [] n = 10 -> "10"

\* HH:MM:SS
StampText(t) == <<NumWord(t.h), ":", NumWord(t.m), ":", NumWord(t.s)>>

StampSeconds(t) == t.h * 3600 + t.m * 60 + t.s

LineTexts == {<<"hello">>, <<"good", " ", "day">>}

\* what a line says: from when to when, and the text
Cues == [from : Stamps, to : Stamps, text : LineTexts]

\* the line [HH:MM:SS --> HH:MM:SS] text
TimedLine(cue) ==
  <<"[">> \o StampText(cue.from) \o <<" ", "-->", " ">> \o StampText(cue.to)
    \o <<"]", " ">> \o cue.text

\* the same with no blank around the arrow
TightLine(cue) ==
  <<"[">> \o StampText(cue.from) \o <<"-->">> \o StampText(cue.to)
    \o <<"]", " ">> \o cue.text

\* the lines of a transcript: timed lines, an empty line, a line of
\* something else
Lines ==
  {TimedLine(cue) : cue \in Cues} \cup {TightLine(cue) : cue \in Cues}
    \cup {<< >>, <<"Detecting", " ", "language">>}

RECURSIVE Transcripts(_)
Transcripts(n) ==
  IF n = 1 THEN Lines
  ELSE Transcripts(n - 1)
         \cup {t \o <<"\n">> \o l : t \in Transcripts(n - 1), l \in Lines}

TranscriptInit ==
  /\ targets = << >>
  /\ StreamerNew
  /\ ProxyNew
  /\ NoRequest
  /\ NoConfig
  /\ NoStage
  /\ transcript \in Transcripts(MaxLines)
  /\ transcriptSegments = NotParsed
  /\ subtitleSegments = << >>
  /\ subtitleData = NotParsed
  /\ subtitleRead = NotParsed

\* TranscribeAudio, lines 171, 193 and 206: the output of the transcriber is
\* handed to parseTranscript
ParseTranscript ==
  /\ transcriptSegments = NotParsed
  /\ transcriptSegments' = [st |-> "ok", segments |-> parseTranscript(transcript)]
  /\ UNCHANGED <<transcript, subtitleSegments, subtitleData, subtitleRead>>
  /\ UNCHANGED <<streamerVars, envVars, ctlVars, workerVars, parseVars, stageVars,
                 httpVars>>

TranscriptNext == ParseTranscript

TranscriptSpec == TranscriptInit /\ [][TranscriptNext]_vars

\* ------------------------------------------------------ the subtitles

\* most segments of a list rendered to subtitles
MaxCues == 2

\* times in whole milliseconds; Segment.Start and Segment.End hold them as
\* float64 seconds: 0, 1.001, 1.5, 2
CueTimes == {0, 1001, 1500, 2000}

CueSegments ==
  {seg \in [Start : CueTimes, End : CueTimes, Text : {"hello", "world"}] :
     seg.Start <= seg.End}

CueSegmentLists == UNION {[1..n -> CueSegments] : n \in 0..MaxCues}

\* time.Duration(seconds * float64(time.Second)), line 140, in nanoseconds:
\* the float64 product, cut to an integer by the conversion. The product is
\* exact for 0, 1.5 and 2; for 1.001, which float64 holds as
\* 1.00099999999999988987, it is 1000999999.9999999.
DurationOf(millis) ==
  CASE millis = 1001 -> 1000999999
    [] OTHER -> millis * 1000000

Digit(n) ==
  CASE n = 0 -> "0" [] n = 1 -> "1" [] n = 2 -> "2" [] n = 3 -> "3"
    [] n = 4 -> "4" [] n = 5 -> "5" [] n = 6 -> "6" [] n = 7 -> "7"
    [] n = 8 -> "8" [] n = 9 -> "9"

\* %02d and %03d of a number below 100 and below 1000
Digits2(n) == <<Digit(n \div 10), Digit(n % 10)>>
Digits3(n) == <<Digit(n \div 100), Digit((n \div 10) % 10), Digit(n % 10)>>

\* formatSRTTime, lines 139-147, and formatVTTTime, lines 149-157, which
\* differ in the mark before the milliseconds
formatTime(millis, mark) ==
  LET duration == DurationOf(millis)
      seconds == duration \div 1000000000
      h == seconds \div 3600
      m == (seconds \div 60) % 60
      s == seconds % 60
      ms == (duration \div 1000000) % 1000
  IN Digits2(h) \o <<":">> \o Digits2(m) \o <<":">> \o Digits2(s) \o <<mark>>
       \o Digits3(ms)

formatSRTTime(millis) == formatTime(millis, ",")

formatVTTTime(millis) == formatTime(millis, ".")

\* the loops of generateSubtitleData, lines 50-57 and 62-69, from segment
\* i on
RECURSIVE CueBlocks(_, _, _)
CueBlocks(segments, i, mark) ==
  IF i > Len(segments) THEN << >>
  ELSE <<Digit(i), "\n">>
         \o formatTime(segments[i].Start, mark) \o <<" ", "-->", " ">>
         \o formatTime(segments[i].End, mark) \o <<"\n">>
         \o <<segments[i].Text, "\n", "\n">>
         \o CueBlocks(segments, i + 1, mark)

\* generateSubtitleData, lines 45-75
generateSubtitleData(fmt, segments) ==
  CASE fmt = "srt" -> [st |-> "ok", text |-> CueBlocks(segments, 1, ",")]
    [] fmt = "vtt" -> [st |-> "ok",
                       text |-> <<"WEBVTT", "\n", "\n">> \o CueBlocks(segments, 1, ".")]
    [] OTHER -> [st |-> "error", err |-> "unsupported subtitle format"]

DigitVal(w) == CHOOSE n \in 0..9 : Digit(n) = w

\* the time HH:MM:SS,mmm says, in milliseconds
ReadSRTTime(t) ==
  ((DigitVal(t[1]) * 10 + DigitVal(t[2])) * 3600
     + (DigitVal(t[4]) * 10 + DigitVal(t[5])) * 60
     + DigitVal(t[7]) * 10 + DigitVal(t[8])) * 1000
    + DigitVal(t[10]) * 100 + DigitVal(t[11]) * 10 + DigitVal(t[12])

\* a reader of SRT: cues of an index line, a line
\* HH:MM:SS,mmm --> HH:MM:SS,mmm, a line of text and an empty line
RECURSIVE ReadCues(_, _)
ReadCues(lines, i) ==
  IF i + 2 > Len(lines) THEN << >>
  ELSE <<[Start |-> ReadSRTTime(SubSeq(lines[i + 1], 1, 12)),
          End   |-> ReadSRTTime(SubSeq(lines[i + 1], 16, 27)),
          Text  |-> lines[i + 2][1]]>>
         \o ReadCues(lines, i + 4)

ReadSRT(text) == ReadCues(Split(text, "\n"), 1)

SubtitleInit ==
  /\ targets = << >>
  /\ StreamerNew
  /\ ProxyNew
  /\ NoRequest
  /\ NoConfig
  /\ NoStage
  /\ transcript = << >>
  /\ transcriptSegments = NotParsed
  /\ subtitleSegments \in CueSegmentLists
  /\ subtitleData = NotParsed
  /\ subtitleRead = NotParsed

\* EmbedSubtitles, line 37
GenerateSubtitles ==
  /\ subtitleData = NotParsed
  /\ subtitleData' = generateSubtitleData(format, subtitleSegments)
  /\ UNCHANGED <<transcript, transcriptSegments, subtitleSegments, subtitleRead>>
  /\ UNCHANGED <<streamerVars, envVars, ctlVars, workerVars, parseVars, stageVars,
                 httpVars>>

\* the subtitle file is read back
ReadSubtitles ==
  /\ subtitleData # NotParsed /\ subtitleData.st = "ok"
  /\ subtitleRead = NotParsed
  /\ subtitleRead' = [st |-> "ok", cues |-> ReadSRT(subtitleData.text)]
  /\ UNCHANGED <<transcript, transcriptSegments, subtitleSegments, subtitleData>>
  /\ UNCHANGED <<streamerVars, envVars, ctlVars, workerVars, parseVars, stageVars,
                 httpVars>>

SubtitleNext == GenerateSubtitles \/ ReadSubtitles

SubtitleSpec == SubtitleInit /\ [][SubtitleNext]_vars

\* ------------------------------------------------ the HTTP variant

\* what a request's goroutines leave alone
sessionVars == <<envVars, ctlVars, workerVars, parseVars, stageVars, textVars>>

streamerState == <<chanVars, mu, initialized, received, frames, pc, arg, err,
                   ret, initErrors, task, errCh, attempts, writeFailed, calls,
                   order>>

\* the lists of targets of a request
RequestTargetLists == {<<"t1">>, <<"t1", "t2">>}

Send(ch, x) == [ch EXCEPT !.buf = Append(@, x)]
Receive(ch) == [ch EXCEPT !.buf = Tail(@)]
Close(ch) == [ch EXCEPT !.closed = TRUE]

\* handleStream, lines 122-123, and processStream, lines 134-182: the
\* temporary files, the four channels, the three goroutines and the Streamer
ProcessStreamStart ==
  /\ pcMain = "none"
  /\ \E requested \in RequestTargetLists, ok \in BOOLEAN :
       IF ok
       THEN /\ targets' = requested
            /\ pcSplit' = "audio" /\ pcProcess' = "audio" /\ pcCloser' = "wait"
            /\ pcMain' = "select"
            /\ UNCHANGED processResult
       ELSE /\ requested = <<"t1">>
            /\ pcMain' = "returned"
            /\ processResult' = [st |-> "error", err |-> "temporary files"]
            /\ UNCHANGED <<targets, pcSplit, pcProcess, pcCloser>>
  /\ UNCHANGED <<audioCh, videoCh, resultCh, procErrCh, streamErrors, fallback,
                 passed, streamerState, sessionVars>>

\* the goroutine of lines 155-162 with splitAudioVideo, lines 206-259: the
\* audio, then the video; an error goes to errCh, and both channels are
\* closed when it returns
SplitAudioVideo ==
  /\ \E ok \in BOOLEAN :
       \/ /\ pcSplit = "audio"
          /\ IF ok
             THEN /\ audioCh' = Send(audioCh, "audio")
                  /\ pcSplit' = "video"
                  /\ UNCHANGED <<videoCh, procErrCh>>
             ELSE /\ procErrCh' = Send(procErrCh, "audio/video split failed")
                  /\ audioCh' = Close(audioCh) /\ videoCh' = Close(videoCh)
                  /\ pcSplit' = "done"
       \/ /\ pcSplit = "video"
          /\ IF ok
             THEN /\ videoCh' = Close(Send(videoCh, "video"))
                  /\ UNCHANGED procErrCh
             ELSE /\ procErrCh' = Send(procErrCh, "audio/video split failed")
                  /\ videoCh' = Close(videoCh)
          /\ audioCh' = Close(audioCh)
          /\ pcSplit' = "done"
  /\ UNCHANGED <<resultCh, pcProcess, pcCloser, pcMain, streamErrors, fallback,
                 passed, processResult, streamerVars, sessionVars>>

\* the goroutine of lines 168-173 with processAudio, lines 261-317: it
\* drains audioCh and videoCh until they are closed; then a failed
\* transcription or embedding sends the original video on resultCh and the
\* error goes to errCh, and a success sends the processed video
ProcessAudio ==
  /\ \/ /\ pcProcess = "audio" /\ audioCh.buf # << >>
        /\ audioCh' = Receive(audioCh)
        /\ UNCHANGED <<videoCh, resultCh, procErrCh, pcProcess, fallback>>
     \/ /\ pcProcess = "audio" /\ audioCh.buf = << >> /\ audioCh.closed
        /\ pcProcess' = "video"
        /\ UNCHANGED <<audioCh, videoCh, resultCh, procErrCh, fallback>>
     \/ /\ pcProcess = "video" /\ videoCh.buf # << >>
        /\ videoCh' = Receive(videoCh)
        /\ UNCHANGED <<audioCh, resultCh, procErrCh, pcProcess, fallback>>
     \/ /\ pcProcess = "video" /\ videoCh.buf = << >> /\ videoCh.closed
        /\ pcProcess' = "transcribe"
        /\ UNCHANGED <<audioCh, videoCh, resultCh, procErrCh, fallback>>
     \/ /\ pcProcess = "transcribe" /\ Len(resultCh.buf) < 1
        /\ \E outcome \in {"transcription failed", "embedding failed", "ok"} :
             IF outcome = "ok"
             THEN /\ resultCh' = Send(resultCh, Subs(1))
                  /\ pcProcess' = "done"
                  /\ UNCHANGED fallback
             ELSE /\ resultCh' = Send(resultCh, Orig(1))
                  /\ fallback' = Orig(1)
                  /\ pcProcess' = "report"
        /\ UNCHANGED <<audioCh, videoCh, procErrCh>>
     \/ /\ pcProcess = "report" /\ Len(procErrCh.buf) < 3
        /\ procErrCh' = Send(procErrCh, "audio processing failed")
        /\ pcProcess' = "done"
        /\ UNCHANGED <<audioCh, videoCh, resultCh, fallback>>
  /\ UNCHANGED <<pcSplit, pcCloser, pcMain, streamErrors, passed, processResult,
                 streamerVars, sessionVars>>

\* the goroutine of lines 176-179: wg.Wait(), then close(resultCh)
CloseResults ==
  /\ pcCloser = "wait" /\ pcProcess = "done"
  /\ resultCh' = Close(resultCh)
  /\ pcCloser' = "done"
  /\ UNCHANGED <<audioCh, videoCh, procErrCh, pcSplit, pcProcess, pcMain,
                 streamErrors, fallback, passed, processResult, streamerVars,
                 sessionVars>>

\* the select of processStream, lines 184-203: a payload from resultCh is
\* passed to streamer.Stream; resultCh closed, or an error from errCh, ends
\* processStream. When several cases are ready any of them is taken.
StreamLoop ==
  /\ pcMain = "select"
  /\ \/ /\ resultCh.buf # << >>
        /\ resultCh' = Receive(resultCh)
        /\ passed' = Append(passed, Head(resultCh.buf))
        /\ pcMain' = "stream"
        /\ CallStream(Deliver, Head(resultCh.buf))
        /\ UNCHANGED <<procErrCh, processResult>>
     \/ /\ resultCh.buf = << >> /\ resultCh.closed
        /\ pcMain' = "returned"
        /\ processResult' = IF streamErrors > 0
                            THEN [st |-> "error", err |-> "streaming errors occurred"]
                            ELSE [st |-> "ok"]
        /\ UNCHANGED <<resultCh, procErrCh, passed, streamerVars>>
     \/ /\ procErrCh.buf # << >>
        /\ procErrCh' = Receive(procErrCh)
        /\ pcMain' = "returned"
        /\ processResult' = [st |-> "error", err |-> Head(procErrCh.buf)]
        /\ UNCHANGED <<resultCh, passed, streamerVars>>
  /\ UNCHANGED <<audioCh, videoCh, pcSplit, pcProcess, pcCloser, streamErrors,
                 fallback, sessionVars>>

\* lines 195-198: the steps of streamer.Stream(processedData) and, when it
\* has returned, the count of its error
StreamCall ==
  /\ pcMain = "stream"
  /\ IF frames[Deliver] # << >>
     THEN StreamerStep(Deliver)
     ELSE /\ streamErrors' = streamErrors + (IF ret[Deliver].err # NilErr THEN 1 ELSE 0)
          /\ pcMain' = "select"
          /\ UNCHANGED <<audioCh, videoCh, resultCh, procErrCh, pcSplit, pcProcess,
                         pcCloser, fallback, passed, processResult, streamerVars,
                         sessionVars>>

HttpNext ==
  \/ ProcessStreamStart
  \/ SplitAudioVideo
  \/ ProcessAudio
  \/ CloseResults
  \/ StreamLoop
  \/ StreamCall

HttpSpec == Init /\ [][HttpNext]_vars

\* ------------------------------------------------- claims on the Streamer

\* a target's channel is Running: it has a live process and an open pipe
Running(t) ==
  /\ t \in DOMAIN persistentCmds /\ persistentCmds[t] \in liveCmds
  /\ t \in DOMAIN persistentStdinPipes /\ persistentStdinPipes[t] \in openPipes

InStream(c) == frames[c] # << >> /\ frames[c][1] = "Stream"

\* c is in the Initialize that Stream calls on an uninitialized Streamer
FirstMile(c) == Len(frames[c]) >= 2 /\ frames[c][1] = "Stream" /\ frames[c][2] = "Initialize"

\* method f, called by the client itself, is about to return err[c]
Returning(c, f) == frames[c] = <<f>> /\ pc[c] = "ret"

\* the targets whose write failed in c's Stream call
Failed(c) == {p[1] : p \in writeFailed[c]}

\* target t has accepted the chunk of c's present Stream call
Delivered(c, t) == <<arg[c], CallTag(c)>> \in Range(received[t])

\* every goroutine of c's Stream call is past its pipe.Write
PastWrite(c) == \A t \in Range(targets) : task[c][t] # "start"

\* no initializeTarget of the Initialize c is in has failed
NoInitFailure(c) == (Top(c) = "Initialize" /\ pc[c] = "lock") \/ initErrors[c] = << >>

\* some goroutine that is inside a method of the Streamer can take a step;
\* when none can, none ever will: a new call only waits for the mutex
StreamerCanStep == ENABLED (\E c \in Clients : StreamerStep(c))

\* C1: Stream on an uninitialized Streamer with at least one target
\* initializes the targets and returns: while initialization has not failed
\* the call is never stuck for good (some step is always possible), and a
\* call that returns after no failure returns nil with every target Running
\* and initialized set.
C1_StreamInitializesThenReturns ==
  \A c \in Clients :
    /\ (FirstMile(c) /\ Len(targets) >= 1 /\ NoInitFailure(c)) => StreamerCanStep
    /\ (Returning(c, "Stream") /\ writeFailed[c] = {}
          /\ err[c].kind # "failed to initialize streaming")
         => /\ err[c] = NilErr
            /\ initialized
            /\ \A t \in Range(targets) : Running(t)

\* C2: on an initialized Streamer one Stream call makes one write attempt
\* per target and no more, and once every goroutine is past its write each
\* target whose write did not fail has accepted the chunk, whichever targets
\* failed.
C2_OneWritePerTarget ==
  \A c \in Clients :
    /\ \A t \in AllTargets : attempts[c][t] <= (IF t \in Range(targets) THEN 1 ELSE 0)
    /\ (frames[c] = <<"Stream">> /\ pc[c] \in {"wait", "ret"} /\ PastWrite(c))
         => \A t \in Range(targets) :
              /\ attempts[c][t] = 1
              /\ t \notin Failed(c) => Delivered(c, t)

\* C2 witness: two targets, the write to t1 failed, t2 has the chunk
C2_Witness ==
  \E c \in Clients :
    /\ frames[c] = <<"Stream">> /\ pc[c] = "wait" /\ initialized
    /\ targets = <<"t1", "t2">> /\ PastWrite(c)
    /\ Failed(c) = {"t1"} /\ Delivered(c, "t2") /\ ~Delivered(c, "t1")

\* C3: after a write failure the target is torn down and reinitialized
\* inside the same call: the call is never stuck for good, and when it
\* returns every failed target whose reinitialization did not fail is Running
\* with a new process.
C3_FailedTargetReinitializedInCall ==
  \A c \in Clients :
    /\ (InStream(c) /\ writeFailed[c] # {}) => StreamerCanStep
    /\ Returning(c, "Stream")
         => \A p \in writeFailed[c] :
              <<TargetType(p[1]), "failed to reinitialize">> \notin err[c].msgs
                => Running(p[1]) /\ persistentCmds[p[1]] # p[2]

\* C4: with two targets, one of which fails its write and its
\* reinitialization, Stream returns an error that names only that target and
\* the other target has the chunk by then.
C4_ErrorNamesOnlyFailedTarget ==
  \A c \in Clients :
    \A f \in AllTargets :
      (InStream(c) /\ targets = <<"t1", "t2">> /\ Failed(c) = {f} /\ PastWrite(c))
        => /\ StreamerCanStep
           /\ \A o \in AllTargets \ {f} : Delivered(c, o)
           /\ Returning(c, "Stream") => ErrNames(err[c]) = {TargetType(f)}

\* c's Initialize has had a target fail
InitFailed(c) ==
  \/ Len(frames[c]) >= 2 /\ Top(c) = "Cleanup"
  \/ Top(c) = "Initialize" /\ pc[c] = "ret" /\ err[c].kind = "initialization errors"

\* C5: first-mile initialization is all-or-nothing: an Initialize in which a
\* target failed is never stuck for good, and it returns its error with every
\* channel torn down, both maps empty and initialized false.
C5_InitializationAllOrNothing ==
  \A c \in Clients :
    /\ InitFailed(c) => StreamerCanStep
    /\ (Top(c) = "Initialize" /\ pc[c] = "ret" /\ err[c] # NilErr)
         => /\ persistentCmds = NoChan /\ persistentStdinPipes = NoChan
            /\ liveCmds = {} /\ openPipes = {}
            /\ ~initialized

\* -------------------------------------------------- claims on the session

\* a goroutine counted by wg has been started and has not finished
WorkerRunning ==
  \/ pcVideo \notin {"none", "exit"} \/ pcAudio \notin {"none", "exit"}
  \/ pcAccum \notin {"none", "exit"} \/ pcDeliver \notin {"none", "exit"}
  \/ \E i \in DOMAIN chunkTasks : chunkTasks[i].pc # "done"

\* processFFmpegOutput has started its workers and has not returned
SessionRunning == mainPc \in {"waitStop", "wgWait"}

\* chunk i was emitted by the accumulator and its payload has not been
\* passed to Stream
Pending(i) == \A k \in DOMAIN streamed : streamed[k].id # i

\* a step of a chunk's goroutine or of the delivery worker is possible;
\* when none is, the delivery worker is inside Stream for good, and no
\* step of the stages before it changes that
DeliveryCanStep ==
  ENABLED ((\E i \in DOMAIN chunkTasks : ChunkTask(i)) \/ Deliverer \/ DeliverStream)

\* C6: no chunk is dropped: a chunk's goroutine queues at most one payload,
\* the original video when transcription never succeeded, and while Stop has
\* not been called an emitted chunk whose payload has not reached Stream is
\* never stuck for good on its way there.
C6_NoChunkDropped ==
  /\ \A i \in DOMAIN chunkTasks :
       LET ct == chunkTasks[i]
       IN /\ (ct.pc \in {"send", "done"} /\ ct.segments = "none") => ct.out = Orig(i)
          /\ Cardinality({k \in DOMAIN streamed : streamed[k].id = i})
               + Cardinality({k \in DOMAIN processedChunks : processedChunks[k].id = i})
               <= (IF ct.sent THEN 1 ELSE 0)
  /\ (~stopChan /\ \E i \in DOMAIN chunkTasks : Pending(i)) => DeliveryCanStep

\* C7: Stop never hangs: a Stop that waits in cmd.Wait is never stuck for
\* good (some step of the system is always possible until it returns).
C7_StopNeverHangs == stopPc = "wait" => ENABLED Next

\* C8: once Stop has closed stopChan every worker exits and
\* processFFmpegOutput returns: the session is never stuck for good with
\* stopChan closed and processFFmpegOutput not returned.
C8_StopUnblocksEveryWorker == (stopChan /\ SessionRunning) => ENABLED Next

\* C9: when Stop has returned (the demux process reaped) no worker of the
\* pipeline is still running.
C9_StopWaitsForWorkers == (started = "running" /\ stopPc = "done") => ~WorkerRunning

\* C10: the end of the demux process without Stop is fatal to the session:
\* with the process gone and Stop not called, the session is never stuck for
\* good short of processFFmpegOutput returning.
C10_DemuxFailureEndsSession ==
  (ffmpeg = "exited" /\ ~stopChan /\ SessionRunning) => ENABLED SessionNext

\* C11: the audio handed to the goroutine of the Nth chunk is the Nth
\* filled window of audio, with no byte of it replaced by audio read for
\* chunk N+1, and it comes with the Nth snapshot of the video.
C11_ChunkAudioIsItsWindow ==
  \A i \in DOMAIN chunkTasks : chunkTasks[i].audio = [win |-> i, over |-> 0]

\* the next step of the video reader is videoBuffer.Write of the block it
\* reads; of the audio reader, a Read into audioChunk; of the accumulator,
\* the snapshot and reset of videoBuffer and the copy of audioChunk
VideoReaderAtBuffer == pcVideo = "read" /\ copyStderr = "write"
AudioReaderAtBuffer == pcAudio = "read" /\ copyStdout = "write"
AccumulatorAtBuffers == pcAccum = "emit"

\* C12: videoBuffer and audioChunk are never accessed by two workers at the
\* same time: never is a reader about to write one of them while the
\* accumulator is about to read, copy or reset it, with nothing ordering
\* the two accesses.
C12_BuffersNeverAccessedConcurrently ==
  ~(AccumulatorAtBuffers /\ (VideoReaderAtBuffer \/ AudioReaderAtBuffer))

\* C14: the goroutine of a chunk whose audio or video is under 1000 bytes
\* is never at a call of the transcriber, the translator or the embedder,
\* has made none, and queues the chunk's video as it received it.
C14_SmallChunkForwardedUntouched ==
  \A i \in DOMAIN chunkTasks :
    LET ct == chunkTasks[i]
    IN (ct.audioLen < MinChunkBytes \/ VideoLen(ct.video) < MinChunkBytes)
         => /\ ct.pc \in {"start", "send", "done"}
            /\ ct.segments = "none" /\ ct.tries = 0
            /\ ct.pc # "start" => ct.out = Orig(i)
            /\ \A k \in DOMAIN processedChunks :
                 processedChunks[k].id = i => processedChunks[k] = Orig(i)
            /\ \A k \in DOMAIN streamed : streamed[k].id = i => streamed[k] = Orig(i)

\* a chunk with no video has been queued, next to a chunk that was large
\* enough and was sent to the transcriber
C14_Witness ==
  \E i, j \in DOMAIN chunkTasks :
    /\ VideoLen(chunkTasks[i].video) < MinChunkBytes /\ chunkTasks[i].sent
    /\ chunkTasks[j].pc = "transcribe"

\* the queue of processed chunks is full
QueueFull == Len(processedChunks) = QueueDepth

\* the chunk goroutines suspended in their send on the queue
SuspendedOnQueue == {i \in DOMAIN chunkTasks : chunkTasks[i].pc = "send"}

\* chunks held inside the pipeline: those in the queue and those whose
\* goroutine waits to queue its payload (a goroutine that has not come to
\* its send yet holds a chunk too, and is left out here)
HeldInPipeline == Len(processedChunks) + Cardinality(SuspendedOnQueue)

\* a full queue and the one producer suspended on it
HeldBound == QueueDepth + 1

\* the delivery worker is busy with a chunk, and not stuck: it has a step
\* to take
SlowDelivery == pcDeliver = "stream" /\ ENABLED DeliverStream

\* C13: with delivery slow and the queue of processed chunks full, the
\* producers before it are suspended, so the pipeline never holds more
\* than a full queue and one suspended producer, however long the stream.
C13_BackpressureBoundsHeldChunks ==
  (QueueFull /\ SlowDelivery) => HeldInPipeline <= HeldBound

\* --------------------------------------- claims on the Streamer, continued

\* where in the history call <<c, n>> was made, and where it returned (0
\* while it has not)
CallIdx(tag) ==
  CHOOSE i \in DOMAIN order :
    order[i].ev = "call" /\ order[i].c = tag[1] /\ order[i].n = tag[2]

RetIdx(tag) ==
  LET is == {i \in DOMAIN order :
               order[i].ev = "ret" /\ order[i].c = tag[1] /\ order[i].n = tag[2]}
  IN IF is = {} THEN 0 ELSE CHOOSE i \in is : TRUE

\* call a was made before call b was made
CalledBefore(a, b) == CallIdx(a) < CallIdx(b)

\* call a had returned when call b was made
ReturnedBefore(a, b) == RetIdx(a) # 0 /\ RetIdx(a) < CallIdx(b)

\* C15, as stated: a target's channel receives the chunks in the order in
\* which Stream was called for them: it never holds a chunk ahead of the
\* chunk of a call made earlier.
C15_ReceivedInCallOrder ==
  \A t \in AllTargets : \A k1, k2 \in DOMAIN received[t] :
    k1 < k2 => ~CalledBefore(received[t][k2][2], received[t][k1][2])

\* C15, amended: a target's channel never holds a chunk ahead of the chunk
\* of a call that had returned when the chunk's own call was made.
C15_ReceivedInSequentialCallOrder ==
  \A t \in AllTargets : \A k1, k2 \in DOMAIN received[t] :
    k1 < k2 => ~ReturnedBefore(received[t][k2][2], received[t][k1][2])

\* a target holds the chunks of two calls, the first of which had returned
\* when the second was made
C15_Witness ==
  \E t \in AllTargets : \E k1, k2 \in DOMAIN received[t] :
    k1 < k2 /\ ReturnedBefore(received[t][k1][2], received[t][k2][2])

\* the goroutine of c's Stream call for target t is in, or about to enter,
\* pipe.Write on t's channel
Writing(c, t) ==
  /\ Top(c) = "Stream" /\ pc[c] = "wait" /\ task[c][t] = "start"
  /\ t \in DOMAIN persistentStdinPipes

\* C16: a target's channel never has two writers at the same time.
C16_OneWriterPerChannel ==
  \A t \in AllTargets : Cardinality({c \in Callers : Writing(c, t)}) <= 1

\* one Stream call is writing to a target while another Stream call waits
\* for the mutex
C16_Witness ==
  \E a, b \in Clients : \E t \in AllTargets :
    a # b /\ Writing(a, t) /\ frames[b] = <<"Stream">> /\ pc[b] = "lock"

\* C17: every live process and every open write end is the one its target
\* has in the maps, so a target has at most one of each, and
\* initializeTarget is entered for a target only when the target has no
\* entry in persistentCmds and persistentStdinPipes.
C17_TornDownBeforeRecreated ==
  /\ liveCmds = Range(persistentCmds)
  /\ openPipes = Range(persistentStdinPipes)
  /\ \A t, u \in DOMAIN persistentCmds :
       persistentCmds[t] = persistentCmds[u] => t = u
  /\ \A c \in Callers :
       (Top(c) = "Initialize" /\ pc[c] = "targets")
         => persistentCmds = NoChan /\ persistentStdinPipes = NoChan
  /\ \A c \in Callers : \A t \in AllTargets :
       task[c][t] = "reinit"
         => /\ t \notin DOMAIN cleanupTarget(Chan, t).cmds
            /\ t \notin DOMAIN cleanupTarget(Chan, t).pipes

\* a target runs a process started after the first one of every target had
\* been stopped: its channel was torn down and created again
C17_Witness ==
  \E t \in DOMAIN persistentCmds :
    /\ persistentCmds[t] > Len(targets)
    /\ persistentCmds[t] \in liveCmds
    /\ liveCmds = Range(persistentCmds)

\* Cleanup is at its loops, which close pipes and wait for processes
CleaningUp(c) ==
  Top(c) = "Cleanup" /\ pc[c] = "body" /\ persistentCmds # NoChan

\* C18: the mutex is never held while a write to a target's channel or a
\* wait for a process to exit is in progress.
C18_LockNotHeldAcrossBlockingIO ==
  mu = Free \/ \A c \in Callers :
                 /\ ~CleaningUp(c)
                 /\ \A t \in AllTargets : ~Writing(c, t)

\* C19: a Cleanup that returns leaves the Streamer uninitialized with both
\* maps empty; a Cleanup of an uninitialized Streamer, as the second of two
\* in succession is, finds nothing to release; and what a Cleanup releases
\* is live and open, so nothing is released twice.
C19_CleanupIdempotent ==
  /\ \A c \in Callers :
       /\ (Top(c) = "Cleanup" /\ pc[c] = "ret")
            => ~initialized /\ persistentCmds = NoChan /\ persistentStdinPipes = NoChan
       /\ (Top(c) = "Cleanup" /\ pc[c] = "body" /\ ~initialized)
            => persistentCmds = NoChan /\ persistentStdinPipes = NoChan
  /\ Range(persistentCmds) \subseteq liveCmds
  /\ Range(persistentStdinPipes) \subseteq openPipes

\* a client's second Cleanup in succession is about to return, after the
\* first one released the channels another client had initialized
C19_Witness ==
  \E c \in Clients :
    /\ Returning(c, "Cleanup")
    /\ nextPid > 1
    /\ Len(order) >= 3
    /\ LET n == Len(order)
       IN /\ order[n] = [ev |-> "call", c |-> c, n |-> 2, m |-> "Cleanup"]
          /\ order[n - 1] = [ev |-> "ret", c |-> c, n |-> 1, m |-> "Cleanup"]
          /\ order[n - 2] = [ev |-> "call", c |-> c, n |-> 1, m |-> "Cleanup"]

\* ------------------------------------------- claims on the list of targets

\* C20: parsing the list of Scenario A gives two targets, of kinds twitch
\* and youtube in that order, with stream keys KEY1 and KEY2.
C20_ScenarioATargetsParsed ==
  (targetURLs = ScenarioATargets /\ parsedTargets # NotParsed)
    => /\ parsedTargets.st = "ok"
       /\ Len(parsedTargets.targets) = 2
       /\ parsedTargets.targets[1].Type = "twitch"
       /\ parsedTargets.targets[2].Type = "youtube"
       /\ parsedTargets.targets[1].StreamKey = "KEY1"
       /\ parsedTargets.targets[2].StreamKey = "KEY2"

\* ----------------------------------------- claims on a list with no target

\* the session's function has run and returned
SessionEnded == mainPc = "returned"

\* no worker of the session was started and no chunk was processed
NothingStarted ==
  /\ pcVideo = "none" /\ pcAudio = "none" /\ pcAccum = "none" /\ pcDeliver = "none"
  /\ totalAudioBytesRead = 0 /\ videoBuffer = << >>
  /\ chunkTasks = << >> /\ processedChunks = << >> /\ streamed = << >>

\* no channel was ever opened
NoChannelOpened ==
  /\ nextPid = 1 /\ liveCmds = {} /\ openPipes = {}
  /\ persistentCmds = NoChan /\ persistentStdinPipes = NoChan

\* C21: with a list of targets that is empty or holds only commas and
\* blanks, parseTargetURLs fails with the no-valid-targets error and the
\* session's function returns with no worker started and no chunk processed;
\* Initialize on a Streamer with no target returns its error and opens no
\* channel.
C21_EmptyListFailsBeforeAnyWork ==
  /\ NothingStarted
  /\ NoChannelOpened
  /\ mainPc \in {"none", "parse", "returned"}
  /\ SessionEnded =>
       parsedTargets = [st |-> "error", err |-> "no valid target URLs provided"]
  /\ \A c \in Clients :
       ret[c].st = "done" => ret[c].err = NoTargetsErr /\ ~initialized

C21_Witness ==
  /\ SessionEnded
  /\ Len(targetURLs) = MaxBlank
  /\ \E c \in Clients : ret[c].st = "done" /\ calls[c] = MaxCalls

\* ------------------------------------------------- claims on one chunk

\* the chunk's transcription has succeeded and the translation stage is
\* behind it
PastTranslation ==
  chunk.pc = "embed" \/ chunk.nEmbed > 0

\* C22: TranslateSegments is called for a chunk exactly when the target
\* language is not empty and differs from the source language; a call that
\* returns no error returns as many segments as it was given, in the same
\* order, with Start and End unchanged; and after a call that returns an
\* error the chunk goes on to the embedding with the segments as
\* transcribed.
C22_TranslationOptionalAndNonFatal ==
  /\ chunk.nTranslate <= 1
  /\ chunk.nTranslate = 1 => targetLang # "" /\ targetLang # sourceLang
  /\ PastTranslation /\ targetLang # "" /\ targetLang # sourceLang
       => chunk.nTranslate = 1
  /\ tr["g1"].pc = "ret" /\ tr["g1"].err = NilErr =>
       /\ Len(tr["g1"].out) = Len(tr["g1"].segments)
       /\ \A i \in DOMAIN tr["g1"].out :
            /\ tr["g1"].out[i].Start = tr["g1"].segments[i].Start
            /\ tr["g1"].out[i].End = tr["g1"].segments[i].End
  /\ chunk.translateErr # NilErr =>
       /\ chunk.pc \in {"embed", "send", "done"}
       /\ chunk.segments = chunk.transcribed
       /\ chunk.nEmbed > 0 => chunk.embedArgs = chunk.transcribed
  /\ chunk.pc = "translating" => ENABLED (TranslatorStep("g1") \/ ChunkTranslated)

C22_Witness ==
  /\ chunk.pc = "done" /\ chunk.nTranslate = 1
  /\ chunk.translateErr = NilErr
  /\ Len(chunk.transcribed) = 2
  /\ chunk.segments[1].Text = "hola" /\ chunk.segments[2].Text = "world"
  /\ chunk.out = Embedded(chunk.segments)

\* a chunk whose translation failed and that was embedded all the same
C22_FailureWitness ==
  /\ chunk.pc = "done" /\ chunk.translateErr # NilErr
  /\ chunk.out = Embedded(chunk.transcribed) /\ Len(chunk.transcribed) = 2

\* the payload of the chunk is decided: nothing but the send is left
PayloadDecided == chunk.pc \in {"send", "done"}

\* C23: EmbedSubtitles is called at most 3 times for a chunk and not again
\* after a call that succeeded; when 3 calls have failed the video goes on
\* as it was received; with the format none or no segment the call returns
\* the video as it is and runs no external command.
C23_EmbeddingBoundedWithFallback ==
  /\ [](/\ chunk.nEmbed <= 3
        /\ chunk.out.kind = "subs" => PayloadDecided
        /\ chunk.nEmbed = 3 /\ PayloadDecided /\ chunk.out.kind # "subs"
             => chunk.out = Original
        /\ chunk.nEmbed < 3 /\ chunk.nEmbed > 0 /\ chunk.out = Original
             => format = "none" \/ Len(chunk.embedArgs) = 0
        /\ chunk.nEmbed > 0 /\ (format = "none" \/ Len(chunk.embedArgs) = 0)
             => chunk.nEmbed = 1 /\ chunk.nExec = 0 /\ chunk.out = Original)
  /\ [][PayloadDecided => chunk'.nEmbed = chunk.nEmbed]_vars

C23_Witness ==
  /\ chunk.pc = "done" /\ chunk.sent
  /\ chunk.nEmbed = 3 /\ chunk.nExec = 3
  /\ Len(chunk.embedArgs) = 2
  /\ chunk.out = Original

\* C30: TranscribeAudio is called at most 3 times for a chunk and not again
\* after a call that succeeded; after 3 failed calls neither
\* TranslateSegments nor EmbedSubtitles is called for the chunk, whose video
\* goes on as it was received.
C30_TranscriptionBounded ==
  /\ [](/\ chunk.nTranscribe <= 3
        /\ chunk.nTranscribe > 0 /\ chunk.transcribeErr = NilErr
             => chunk.pc # "transcribe"
        /\ chunk.transcribeErr # NilErr /\ chunk.pc = "transcribe"
             => chunk.nTranscribe < 3
        /\ chunk.transcribeErr # NilErr /\ chunk.pc # "transcribe"
             => /\ chunk.nTranscribe = 3
                /\ chunk.nTranslate = 0 /\ chunk.nEmbed = 0
                /\ PayloadDecided /\ chunk.out = Original)
  /\ [][chunk.pc # "transcribe" => chunk'.nTranscribe = chunk.nTranscribe]_vars

C30_Witness ==
  /\ chunk.pc = "done" /\ chunk.sent
  /\ chunk.nTranscribe = 3 /\ chunk.transcribeErr # NilErr
  /\ TranslateNeeded(sourceLang, targetLang)

\* --------------------------------------------- claims on the Translator

\* C24: for every language pair, "argospm list" is run at most once in the
\* life of the Translator, and every check of the pair gives the same
\* answer.
C24_PairListedAtMostOnce ==
  \A k \in PairKeys :
    /\ listings[k] <= 1
    /\ Cardinality(answers[k]) <= 1

\* --------------------------------------------- claims on the transcript

\* the transcript is made of these lines, each of the form
\* [HH:MM:SS --> HH:MM:SS] text
RECURSIVE JoinLines(_)
JoinLines(cues) ==
  IF Len(cues) = 1 THEN TimedLine(cues[1])
  ELSE JoinLines(SubSeq(cues, 1, Len(cues) - 1)) \o <<"\n">> \o TimedLine(cues[Len(cues)])

CueLists == UNION {[1..n -> Cues] : n \in 1..MaxLines}

\* C25: parseTranscript gives one segment for every line of the form
\* [HH:MM:SS --> HH:MM:SS] text, in the order of the lines, with Start and
\* End the two times in seconds and Text the text after the bracket.
C25_TimedLinesBecomeSegments ==
  \A cues \in CueLists :
    transcript = JoinLines(cues) /\ transcriptSegments # NotParsed =>
      /\ Len(transcriptSegments.segments) = Len(cues)
      /\ \A i \in DOMAIN cues :
           /\ transcriptSegments.segments[i].Start = StampSeconds(cues[i].from)
           /\ transcriptSegments.segments[i].End = StampSeconds(cues[i].to)
           /\ transcriptSegments.segments[i].Text = cues[i].text

\* ---------------------------------------------- claims on the subtitles

\* C26: segments with times in whole milliseconds, rendered to SRT and read
\* back, give the same (start, end, text) in the same order.
C26_SRTRoundTrip ==
  subtitleRead # NotParsed =>
    subtitleRead.cues = [i \in DOMAIN subtitleSegments |-> subtitleSegments[i]]

\* ------------------------------------- claims on the session, continued

\* C27: a delivery that fails does not stop the delivery worker: while Stop
\* has not been called and a further chunk is queued, the worker that is
\* delivering a chunk is never stuck for good in it, so that it comes back,
\* after 3 failed calls of Stream at the latest, and passes the next chunk
\* to Stream.
C27_DeliveryWorkerKeepsRunning ==
  (~stopChan /\ pcDeliver = "stream" /\ processedChunks # << >>)
    => ENABLED DeliverStream

\* what the session owns is released: its two pipe readers are closed, its
\* workers are gone, and no process or pipe of its Streamer is open
SessionReleased ==
  /\ audioRClosed /\ videoRClosed
  /\ \A w \in {pcVideo, pcAudio, pcAccum, pcDeliver} : w \in {"none", "exit"}
  /\ \A i \in DOMAIN chunkTasks : chunkTasks[i].pc = "done"
  /\ liveCmds = {} /\ openPipes = {}

\* C28: when the session has ended, by Stop, what it owns is released: once
\* Stop has been called and no step is left to take, the session's pipes
\* and workers are gone and no process or pipe opened by its Streamer is
\* still open.
C28_SessionEndReleasesResources ==
  (stopChan /\ ~ENABLED Next) => SessionReleased

\* C29: in the HTTP variant, when processStream has returned after
\* processAudio placed the original video on the result queue, that video
\* has been passed to Streamer.Stream, whichever of the result queue and
\* the error queue the select served first.
C29_FallbackPassedBeforeReturn ==
  (pcMain = "returned" /\ fallback # NoData)
    => \E k \in DOMAIN passed : passed[k] = fallback

\* ------------------------------- claims on the Streamer, the target states

\* the state of a target's channel: Faulted from the failure of its write
\* until the goroutine that saw it has torn the channel down and tried to
\* start it again; failed for good when the Streamer is initialized and the
\* target has no channel
TargetState(t) ==
  IF \E c \in Callers : task[c][t] \in {"lock", "reinit"} THEN "Faulted"
  ELSE IF Running(t) THEN "Running"
  ELSE IF initialized /\ t \in Range(targets) THEN "PermanentlyFailed"
  ELSE "Uninitialized"

\* C31: a target goes from Uninitialized to Running, from Running to Faulted
\* on a write failure, and from Faulted to Running or to permanently failed:
\* the goroutine of a Faulted target can take the step that reinitializes
\* it; and a Stream call that finds a target failed for good reports an
\* error for it without writing to it, and writes to the other targets.
C31_TargetStateMachine ==
  /\ \A t \in AllTargets : \A c \in Clients :
       task[c][t] \in {"lock", "reinit"} => ENABLED StreamTask(c, t)
  /\ \A t \in AllTargets : \A c \in Clients :
       (frames[c] = <<"Stream">> /\ pc[c] = "ret"
          /\ TargetState(t) = "PermanentlyFailed" /\ t \notin Failed(c))
         => /\ attempts[c][t] = 0
            /\ TargetType(t) \in ErrNames(err[c])
            /\ \A o \in Range(targets) \ {t} : attempts[c][o] = 1

\* a Cleanup has returned to the client that called it
CleanupReturned ==
  \E i \in DOMAIN order : order[i].ev = "ret" /\ order[i].m = "Cleanup"

\* C32: Initialize on an initialized Streamer returns nil and opens no
\* channel; and an Initialize that finds the Streamer uninitialized, as it is
\* after Cleanup, and whose targets all start, leaves exactly one channel per
\* configured target, each newly opened, and initialized true.
C32_InitializeIdempotent ==
  [][\A c \in Clients :
       /\ (Top(c) = "Initialize" /\ pc[c] = "lock" /\ pc'[c] # "lock" /\ initialized)
            => /\ pc'[c] = "ret" /\ err'[c] = NilErr
               /\ initialized'
               /\ UNCHANGED chanVars
       /\ (Top(c) = "Initialize" /\ ~initialized /\ initialized')
            => /\ DOMAIN persistentCmds' = Range(targets)
               /\ DOMAIN persistentStdinPipes' = Range(targets)
               /\ \A t \in Range(targets) :
                    /\ persistentCmds'[t] \in liveCmds' \ liveCmds
                    /\ persistentStdinPipes'[t] \in openPipes' \ openPipes
               /\ Cardinality(liveCmds' \ liveCmds) = Len(targets)
               /\ Cardinality(openPipes' \ openPipes) = Len(targets)
               /\ liveCmds = {} /\ openPipes = {}
               /\ err'[c] = NilErr
    ]_vars

\* a client's Initialize is about to return nil on an initialized Streamer
\* whose channels were all opened after a Cleanup had returned
C32_Witness ==
  \E c \in Clients :
    /\ Returning(c, "Initialize") /\ err[c] = NilErr /\ initialized
    /\ CleanupReturned
    /\ targets = <<"t1", "t2">>
    /\ \A t \in Range(targets) : Running(t) /\ persistentCmds[t] > Len(targets)

\* a client's Initialize found the Streamer initialized and is about to
\* return nil
C32_AgainWitness ==
  \E c \in Clients :
    /\ Returning(c, "Initialize") /\ err[c] = NilErr /\ initialized
    /\ calls[c] = 2
    /\ order[Len(order)] = [ev |-> "call", c |-> c, n |-> 2, m |-> "Initialize"]
    /\ order[Len(order) - 1] = [ev |-> "ret", c |-> c, n |-> 1, m |-> "Initialize"]

\* ------------------------------------------- claims on the accumulation

\* C33: the audio cursor stays between 0 and audioChunkSize; the audio
\* reader is at its send on audioChunkReady, and the signal is taken, only
\* with the cursor equal to audioChunkSize; and the audio handed to the
\* goroutine of a chunk has audioChunkSize bytes.
C33_AudioCursorBounded ==
  /\ [](/\ 0 <= totalAudioBytesRead /\ totalAudioBytesRead <= AudioChunkSize
        /\ pcAudio = "signal" => totalAudioBytesRead = AudioChunkSize
        /\ \A i \in DOMAIN chunkTasks :
             chunkTasks[i].pc # "copied" => chunkTasks[i].audioLen = AudioChunkSize)
  /\ [][(pcAccum # "emit" /\ pcAccum' = "emit")
          => totalAudioBytesRead = AudioChunkSize]_vars

\* the second chunk has been handed to its goroutine while the audio reader
\* holds the rest of a block that straddled the end of the chunk
C33_Witness ==
  /\ Len(chunkTasks) = 2 /\ chunkTasks[2].pc = "start"
  /\ chunkTasks[2].audioLen = AudioChunkSize
  /\ totalAudioBytesRead > 0 /\ totalAudioBytesRead < RaggedAudioBlock

\* ------------------------------------- claims on the session, the order

\* the payloads that have reached the delivery stage, in the order they
\* were queued: those the delivery worker has taken, then those in the queue
ReachedDelivery == streamed \o processedChunks

\* C34: the payloads reach the queue of processed chunks, and Stream, in the
\* order the accumulator emitted their chunks.
C34_DeliveredInAccumulationOrder ==
  \A j, k \in DOMAIN ReachedDelivery :
    j < k => ReachedDelivery[j].id < ReachedDelivery[k].id

\* the delivery worker has called Stream again for the chunk it holds, after
\* a call that returned an error (lines 409-417)
RetryMade == dTries > 0

\* C35: no target's channel accepts the same payload twice. In the session
\* this holds of every reachable state and says nothing of the retry:
\* RetryMade is never true, no call of Stream returning an error.
C35_ChunkWrittenOncePerTarget ==
  /\ \A t \in AllTargets : \A j, k \in DOMAIN received[t] :
       j # k => received[t][j][1] # received[t][k][1]
  /\ ~RetryMade

\* the video of the chunks emitted so far, end to end
RECURSIVE VideoOfChunks(_)
VideoOfChunks(n) ==
  IF n = 0 THEN << >> ELSE VideoOfChunks(n - 1) \o chunkTasks[n].video

\* C36: the video chunks emitted so far, end to end, are a prefix of the
\* blocks the video reader has read from the demuxer, in the order read: no
\* block is missing from them and none is in two of them.
C36_VideoBytesConserved ==
  LET emitted == VideoOfChunks(Len(chunkTasks))
  IN \A k \in DOMAIN emitted : emitted[k] = k

\* ------------------------------- claims on the Streamer, the calls' ends

\* C37: while Stream waits for its goroutines in wg.Wait(), either they are
\* all done, and Stream goes on to collect the errors and return, or one of
\* them can take a step: none is blocked for good, whether at a send on
\* errCh or elsewhere.
C37_StreamAlwaysReturns ==
  \A c \in Clients :
    (Top(c) = "Stream" /\ pc[c] = "wait")
      => \/ ENABLED StreamCollect(c)
         \/ \E t \in AllTargets : ENABLED StreamTask(c, t)

\* ------------------------------------- claims on one chunk, continued

\* the session's two languages are the same language once normalized
SameLanguage == normalizeLanguageCode(sourceLang) = normalizeLanguageCode(targetLang)

\* the translation engine is about to be run for the chunk's segments
EngineInvoked == tr["g1"].pc = "checked" /\ tr["g1"].avail

\* C38: when the source and the target are the same language after
\* normalization, no availability check is made for the pair, the
\* translation engine is not run and no translation failure is reported
\* for the chunk.
C38_NoTranslationForSameLanguage ==
  SameLanguage
    => /\ \A k \in DOMAIN listings : listings[k] = 0
       /\ ~EngineInvoked
       /\ chunk.translateErr = NilErr

\* ------------------------- claims on the Streamer, failed initialization

\* c is at the s.Cleanup() that Initialize calls after a target failed to
\* start (line 118)
AtTeardown(c) == Len(frames[c]) >= 2 /\ Top(c) = "Cleanup" /\ pc[c] = "lock"

\* C39: after an initialization in which a target failed the channels that
\* were opened are torn down, the Streamer being left uninitialized with no
\* open channel for the next Stream call to initialize again: the Cleanup
\* called for it can run. And Stream starts its writes only on an
\* initialized Streamer.
C39_FailedInitializationLeavesNothing ==
  \A c \in Clients :
    /\ AtTeardown(c) => ENABLED CleanupEnter(c)
    /\ (Top(c) = "Stream" /\ pc[c] \in {"spawn", "wait"}) => initialized
    /\ (frames[c] = <<"Initialize">> /\ pc[c] = "ret" /\ err[c] # NilErr)
         => ~initialized /\ openPipes = {} /\ liveCmds = {}

====
